---- MODULE Spec2Model ----
(***************************************************************************)
(* BeamShare transfer engine: FileTransferManager (webrtc/transfer.js) and *)
(* StorageManager (storage/manager.js).                                    *)
(*                                                                         *)
(* The sender (sendFiles / sendFile / waitForBuffer) writes messages to    *)
(* the data channel, recorded in order in `wire`.  The receiver            *)
(* (receiveFiles' onmessage and the handlers it calls) consumes messages   *)
(* and drives the StorageManager.  Byte counts are scaled down: a file is  *)
(* a few bytes long and maxBufferedAmount is a few bytes.                  *)
(***************************************************************************)
EXTENDS Integers, Sequences, FiniteSets, TLC

\* ------------------------------------------------------------------ bounds
MaxFiles == 2       \* files in one sendFiles batch: 1..MaxFiles
MaxFileSize == 3    \* bytes in a file: 0..MaxFileSize
MaxPieceLen == 2    \* bytes one reader.read() may deliver: 1..MaxPieceLen
BufCap == 3         \* largest bufferedAmount the channel model reports
MaxMsgs == 6        \* messages a peer delivers to a receiver on its own
MaxNoisyMsgs == 4   \* messages of a peer that also sends text that is not JSON
MaxOrderlyMsgs == 10 \* messages of a peer that sends one chunk at a time
MaxSdpLen == 2      \* characters in the sdp of a pairing payload: 1..MaxSdpLen
MaxClock == 2       \* Date.now() runs from 0 to MaxClock
MaxParses == 2      \* parse calls made on one pairing code
MaxTransfers == 1   \* transfer ids with recorded metrics: 0..MaxTransfers-1
MaxHandlers == 2    \* distinct callbacks: 1..MaxHandlers
MaxListeners == 3   \* callbacks in one listener list
MaxLiveFiles == 2   \* files in a batch whose end is awaited: 1..MaxLiveFiles
MaxLiveSize == 2    \* bytes in a file of such a batch: 0..MaxLiveSize
MaxCores == 17      \* navigator.hardwareConcurrency: 1..MaxCores, or absent
MaxOptimizeCalls == 2 \* optimizeForSpeed calls made on one AutoOptimizer
MaxStarts == 2      \* startTransfer calls made on one useFileTransfer hook
MaxHookSize == 2    \* bytes in a file given to startTransfer: 0..MaxHookSize

\* maxBufferedAmount = 32 * 1024 * 1024 in the source, scaled to bytes of
\* the model.
maxBufferedAmount == 1

\* this.chunkSize = this.getOptimalChunkSize(): 16 KiB to 1 MiB in the
\* source, scaled to bytes of the model.
chunkSize == 2

NoFile == -1        \* a fileId that is null / undefined
NoHash == <<>>      \* a hash that is '' / undefined
NoManifest == [received |-> FALSE, files |-> <<>>]
NoChunk == <<>>     \* expectedChunk that is null / undefined
NoLength == -1      \* a byteLength that is undefined
EmptyMap == [x \in {} |-> {}]

VARIABLES
  \* ---- sender (FileTransferManager.sendFiles / sendFile)
  files,            \* the files argument: sequence of [size, type]
  spc,              \* position of the sendFiles/sendFile coroutine
  si,               \* loop index i of sendFiles (1-based; fileId = si - 1)
  offset,           \* sendFile's local `offset`
  piece,            \* bytes returned by the last reader.read() (value)
  seen,             \* bufferedAmount as read by waitForBuffer's last test
  slept,            \* waitForBuffer has slept since the last reader.read()
  reads,            \* fileId -> the values reader.read() has returned so far
  activeTransfers,  \* this.activeTransfers: fileId -> [sent, hash]
  transfer,         \* sendFile's local `transfer` object: [sent, hash]
  cancelledAt,      \* fileId -> chunks of the file begun when it was cancelled
  others,           \* positions in wire of the sends of another sendFiles call
  sEvents,          \* events emitted to the sender's listeners, in order
  \* ---- data channel
  wire,             \* every message passed to dataChannel.send, in order
  bufferedAmount,   \* dataChannel.bufferedAmount
  \* ---- receiver (FileTransferManager.receiveFiles)
  rIdx,             \* number of messages the onmessage handler was given
  rLast,            \* the message the onmessage handler was given last
  manifest,         \* receiveFiles' `manifest`
  currentFile,      \* fileId of receiveFiles' `currentFile`, or NoFile
  receivedFiles,    \* receiveFiles' `receivedFiles`: fileId -> file
  finalizing,       \* completeFileReceive calls awaiting saveFile
  preparing,        \* prepareReceive calls awaiting the directory picker
  rEvents,          \* events emitted to the receiver's listeners, in order
  handled,          \* per fileId: file-start / file-end cases entered so far
  closedFiles,      \* fileIds whose completeFileReceive has returned or thrown
  \* ---- storage (StorageManager)
  fsAccessSupported,
  opfsSupported,
  directoryHandle,  \* TRUE when a directory handle is held
  tempFiles,        \* this.tempFiles: fileId -> sequence of chunks
  saved,            \* files handed to saveFile, in order: [name, data]
  \* ---- signaling (SignalingManager, qr-utils)
  compressionEnabled, \* this.compressionEnabled of the SignalingManager
  cpc,              \* "idle"; "encoded", "parsed" (a code was made, parsed);
                    \* "typed", "answered" (a code was entered, parsed)
  codec,            \* the codec that made the code
  payload,          \* the data argument of the encode call: [role, sdp]
  clock,            \* Date.now()
  stamped,          \* Date.now() as the encode call read it
  code,             \* the encode call's result: [ok, text]
  parsed,           \* the last parse call's result: [ok, data, error]
  parsedAt,         \* Date.now() as the last parse call read it
  parses,           \* parse calls made so far
  encoderCS,        \* 'CompressionStream' in window, where the code is made
  decoderDS,        \* 'DecompressionStream' in window, where it is parsed
  \* ---- chunk size heuristics (PerformanceOptimizer, FileTransferManager)
  effectiveType,    \* navigator.connection.effectiveType, "" when absent
  deviceMemory,     \* navigator.deviceMemory in quarters of a GiB, 0 when absent
  connectionMetrics, \* this.connectionMetrics: transferId -> [speed, latency]
  chunk,            \* the last call of a heuristic and what it returned
  \* ---- event emitters (WebRTCConnection, AppState, FileTransferManager)
  listeners,        \* this.listeners[event]: the callbacks, in order
  epc,              \* "idle", or "emitting" while emit's forEach runs
  ek,               \* forEach's index k (0-based)
  elen,             \* forEach's len, read when the iteration started
  called,           \* callbacks invoked by the last emit, in order
  snapshot,         \* listeners as they were when the last emit started
  \* ---- useFileTransfer / useWebRTC (client/src/lib/webrtc.ts)
  readyStateOpen,   \* dataChannelRef.current.readyState === 'open'
  abortController,  \* abortControllerRef.current: the call that made it
  aborted,          \* the controllers whose signal.aborted is true
  loops,            \* startTransfer calls: call -> locals and position
  transferState,    \* the hook's state: [progress, isTransferring, ...]
  sending,          \* messages the last step passed to dataChannel.send
  \* ---- AutoOptimizer (client/src/lib/auto-optimizer.ts)
  hardwareConcurrency, \* navigator.hardwareConcurrency, 0 when absent
  isOptimized,      \* this.isOptimized
  warming,          \* optimizeForSpeed calls: call -> probes still pending
  ran,              \* how often each optimization step has been executed
  beamshareOptimalTransfer \* window.beamshareOptimalTransfer

senderVars == <<files, spc, si, offset, piece, seen, slept, reads,
                activeTransfers, transfer, cancelledAt, others, sEvents>>
channelVars == <<wire, bufferedAmount>>
receiverVars == <<rIdx, rLast, manifest, currentFile, receivedFiles, finalizing,
                  preparing, rEvents, handled, closedFiles>>
storageVars == <<fsAccessSupported, opfsSupported, directoryHandle, tempFiles,
                 saved>>
codecVars == <<compressionEnabled, cpc, codec, payload, clock, stamped, code,
               parsed, parsedAt, parses, encoderCS, decoderDS>>
optimizerVars == <<effectiveType, deviceMemory, connectionMetrics, chunk>>
emitterVars == <<listeners, epc, ek, elen, called, snapshot>>
transferVars == <<senderVars, channelVars, receiverVars, storageVars>>
hookVars == <<readyStateOpen, abortController, aborted, loops, transferState,
              sending>>
autoVars == <<hardwareConcurrency, isOptimized, warming, ran,
              beamshareOptimalTransfer>>
utilityVars == <<codecVars, optimizerVars, emitterVars, hookVars, autoVars>>
vars == <<transferVars, utilityVars>>

\* ------------------------------------------------------------------ data
FileIds == 0 .. (MaxFiles - 1)
Byte == {0, 1}

Min(a, b) == IF a < b THEN a ELSE b

\* Map.prototype.set and Map.prototype.delete on a function.
MapSet(f, k, v) == [x \in DOMAIN f \cup {k} |-> IF x = k THEN v ELSE f[x]]
MapDelete(f, k) == [x \in DOMAIN f \ {k} |-> f[x]]

\* Content of file `id`: `size` bytes.
FileBytes(id, size) == [p \in 1 .. size |-> (id + p) % 2]

\* File.type of the file with index id.
FileType(id) == IF id % 2 = 0 THEN "text/plain" ELSE ""

\* The files of a batch as the sender sees them.
FileOf(id, size) == [size |-> size, type |-> FileType(id), name |-> id]

FileLists ==
  UNION { [1 .. n -> 0 .. MaxFileSize] : n \in 1 .. MaxFiles }

\* SHA-256 as hex: modelled as an injective function of the bytes.
SHA256(bytes) == <<"sha256", bytes>>

SubSeqFrom(s, from, n) == [k \in 1 .. n |-> s[from + k]]

RECURSIVE SumSizes(_)
SumSizes(fs) ==
  IF fs = <<>> THEN 0 ELSE fs[1].size + SumSizes(Tail(fs))

\* ------------------------------------------------------------------ messages
\* Control messages are JSON text; a chunk payload is a raw binary message.
\* json is FALSE for a message that JSON.parse throws on: a binary message,
\* and text that is not JSON.
Msg(type) ==
  [type |-> type, fileId |-> NoFile, offset |-> 0, size |-> 0, hash |-> NoHash,
   name |-> NoFile, files |-> <<>>, data |-> <<>>, binary |-> FALSE,
   json |-> TRUE]

ManifestMsg(fs) ==
  [Msg("manifest") EXCEPT
     !.files = [k \in 1 .. Len(fs) |->
                  [id |-> k - 1, name |-> fs[k].name, size |-> fs[k].size]],
     !.size = SumSizes(fs)]

\* The header literal of sendFile names `type` twice: 'file-start' first and
\* file.type second.  The later property wins, so the message's type is the
\* file's media type.
FileStartHeaderType(file) == file.type

FileStartMsg(fileId, file, hash) ==
  [Msg(FileStartHeaderType(file)) EXCEPT
     !.fileId = fileId, !.name = file.name, !.size = file.size, !.hash = hash]

ChunkHeaderMsg(fileId, off, size) ==
  [Msg("chunk") EXCEPT !.fileId = fileId, !.offset = off, !.size = size]

PayloadMsg(bytes) ==
  [Msg("") EXCEPT !.binary = TRUE, !.json = FALSE, !.data = bytes]

\* A text message that is not JSON; data holds its characters.
TextMsg(chars) ==
  [Msg("") EXCEPT !.json = FALSE, !.data = chars]

FileEndMsg(fileId, hash) ==
  [Msg("file-end") EXCEPT !.fileId = fileId, !.hash = hash]

CompleteMsg == Msg("complete")

IsChunkHeader(m) == ~m.binary /\ m.type = "chunk"

\* Bytes a message adds to bufferedAmount (a control message counts as one).
MsgLen(m) == IF m.binary THEN Len(m.data) ELSE 1

RECURSIVE SumLen(_)
SumLen(ms) == IF ms = <<>> THEN 0 ELSE MsgLen(ms[1]) + SumLen(Tail(ms))

\* dataChannel.send of the messages ms, in order.
Send(ms) ==
  /\ wire' = wire \o ms
  /\ bufferedAmount' = Min(BufCap, bufferedAmount + SumLen(ms))

\* ------------------------------------------------------------------ sender
fileId == si - 1

CurFile == files[si]

\* sendFiles: build the manifest, send it, enter the loop.
SendManifest ==
  /\ spc = "start"
  /\ Send(<<ManifestMsg(files)>>)
  /\ spc' = "file"
  /\ si' = 1
  /\ UNCHANGED <<files, offset, piece, seen, slept, reads, activeTransfers, transfer,
                 sEvents>>
  /\ UNCHANGED <<utilityVars, receiverVars, storageVars, cancelledAt, others>>

\* The entry sendFile put in activeTransfers is the object `transfer`: a
\* write to transfer shows in the map for as long as the entry is there.
Tracked(at, id, t) == IF id \in DOMAIN at THEN [at EXCEPT ![id] = t] ELSE at

\* sendFile up to `await calculateSHA256(file)`.
BeginFile ==
  /\ spc = "file"
  /\ transfer' = [sent |-> 0, hash |-> NoHash]
  /\ activeTransfers' = MapSet(activeTransfers, fileId, transfer')
  /\ spc' = "hash"
  /\ UNCHANGED <<files, si, offset, piece, seen, slept, reads, sEvents,
                 channelVars>>
  /\ UNCHANGED <<utilityVars, receiverVars, storageVars, cancelledAt, others>>

\* sendFile after the hash: send the file header, open the reader.
SendFileHeader ==
  /\ spc = "hash"
  /\ LET h == SHA256(FileBytes(fileId, CurFile.size)) IN
       /\ transfer' = [transfer EXCEPT !.hash = h]
       /\ activeTransfers' = Tracked(activeTransfers, fileId, transfer')
       /\ Send(<<FileStartMsg(fileId, CurFile, h)>>)
  /\ offset' = 0
  /\ reads' = MapSet(reads, fileId, <<>>)
  /\ spc' = "read"
  /\ UNCHANGED <<files, si, piece, seen, slept, sEvents>>
  /\ UNCHANGED <<utilityVars, receiverVars, storageVars, cancelledAt, others>>

\* await reader.read(): done at the end of the file, else the next bytes.
ReadChunk ==
  /\ spc = "read"
  /\ IF offset = CurFile.size
       THEN /\ spc' = "end"
            /\ piece' = <<>>
            /\ UNCHANGED reads
       ELSE \E n \in 1 .. Min(MaxPieceLen, CurFile.size - offset) :
              /\ piece' = SubSeqFrom(FileBytes(fileId, CurFile.size), offset, n)
              /\ reads' = [reads EXCEPT ![fileId] = Append(@, piece')]
              /\ spc' = "wait"
  /\ slept' = FALSE
  /\ UNCHANGED <<files, si, offset, seen, activeTransfers, transfer, sEvents, channelVars>>
  /\ UNCHANGED <<utilityVars, receiverVars, storageVars, cancelledAt, others>>

\* waitForBuffer with its comparison turned around.
BufferTooFull_Inverted(amount) == amount < maxBufferedAmount

\* waitForBuffer's loop test: TRUE when the loop body (the sleep) is entered.
BufferTooFull(amount) == amount > maxBufferedAmount

\* waitForBuffer, had it waited for the buffer to drop below the mark
\* (bufferedAmount >= maxBufferedAmount).
WaitForBuffer_BelowMark ==
  /\ spc = "wait"
  /\ seen' = bufferedAmount
  /\ spc' = IF bufferedAmount >= maxBufferedAmount THEN "sleep" ELSE "send"
  /\ slept' = (slept \/ bufferedAmount >= maxBufferedAmount)
  /\ UNCHANGED <<files, si, offset, piece, reads, activeTransfers, transfer, sEvents,
                 channelVars>>
  /\ UNCHANGED <<utilityVars, receiverVars, storageVars, cancelledAt, others>>

\* One evaluation of waitForBuffer's loop test.
WaitForBuffer ==
  /\ spc = "wait"
  /\ seen' = bufferedAmount
  /\ spc' = IF BufferTooFull(bufferedAmount) THEN "sleep" ELSE "send"
  /\ slept' = (slept \/ BufferTooFull(bufferedAmount))
  /\ UNCHANGED <<files, si, offset, piece, reads, activeTransfers, transfer, sEvents,
                 channelVars>>
  /\ UNCHANGED <<utilityVars, receiverVars, storageVars, cancelledAt, others>>

\* waitForBuffer's timer that resumes at the next reader.read() instead of
\* the loop test: the value read before the stall is never sent.
WakeUp_SkipsChunk ==
  /\ spc = "sleep"
  /\ spc' = "read"
  /\ UNCHANGED <<files, si, offset, piece, seen, slept, reads, activeTransfers, transfer,
                 sEvents, channelVars>>
  /\ UNCHANGED <<utilityVars, receiverVars, storageVars, cancelledAt, others>>

\* The 100 ms timer of waitForBuffer fires.
WakeUp ==
  /\ spc = "sleep"
  /\ spc' = "wait"
  /\ UNCHANGED <<files, si, offset, piece, seen, slept, reads, activeTransfers, transfer,
                 sEvents, channelVars>>
  /\ UNCHANGED <<utilityVars, receiverVars, storageVars, cancelledAt, others>>

\* The two sends of a chunk: the header, then the value read.
ChunkMsgs(id, off, value) ==
  <<ChunkHeaderMsg(id, off, Len(value)), PayloadMsg(value)>>

\* `offset += value.length` left out.
NextOffset_Stuck(off, value) == off

\* offset += value.length
NextOffset(off, value) == off + Len(value)

\* Another sendFile call that runs on the same channel (for another
\* FileTransferManager): a file of one byte, read in one value.  Its sends,
\* in order; it may be suspended between any two of them.
OtherFile == FileOf(0, Len(<<0>>))

OtherHash == SHA256(FileBytes(0, OtherFile.size))

OtherSends ==
  << <<FileStartMsg(0, OtherFile, OtherHash)>>,
     ChunkMsgs(0, 0, FileBytes(0, OtherFile.size)),
     <<FileEndMsg(0, OtherHash)>> >>

\* Position k of wire holds a message of the other call.
OwnedByOther(k) ==
  \E j \in 1 .. Len(others) :
    others[j] <= k /\ k < others[j] + Len(OtherSends[j])

\* The chunk header of the value at `offset` is on the channel already.
OwnHeaderSent ==
  \E k \in 1 .. Len(wire) :
    /\ ~OwnedByOther(k)
    /\ IsChunkHeader(wire[k]) /\ wire[k].fileId = fileId
    /\ wire[k].offset = offset

\* sendFile yielding to other callbacks between the header and the payload.
SendChunk_Yields ==
  /\ spc = "send"
  /\ IF ~OwnHeaderSent
       THEN /\ Send(<<ChunkHeaderMsg(fileId, offset, Len(piece))>>)
            /\ UNCHANGED <<offset, transfer, activeTransfers, sEvents, spc>>
       ELSE /\ Send(<<PayloadMsg(piece)>>)
            /\ offset' = NextOffset(offset, piece)
            /\ transfer' = [transfer EXCEPT !.sent = offset']
            /\ activeTransfers' = Tracked(activeTransfers, fileId, transfer')
            /\ sEvents' = Append(sEvents,
                 [type |-> "progress", kind |-> "", fileId |-> fileId,
                  sent |-> offset', total |-> CurFile.size])
            /\ spc' = "read"
  /\ UNCHANGED <<files, si, piece, seen, slept, reads>>
  /\ UNCHANGED <<utilityVars, receiverVars, storageVars, cancelledAt, others>>

\* Send the chunk header and the payload, advance offset, report progress.
SendChunk ==
  /\ spc = "send"
  /\ Send(ChunkMsgs(fileId, offset, piece))
  /\ offset' = NextOffset(offset, piece)
  /\ transfer' = [transfer EXCEPT !.sent = offset']
  /\ activeTransfers' = Tracked(activeTransfers, fileId, transfer')
  /\ sEvents' = Append(sEvents,
       [type |-> "progress", kind |-> "", fileId |-> fileId, sent |-> offset',
        total |-> CurFile.size])
  /\ spc' = "read"
  /\ UNCHANGED <<files, si, piece, seen, slept, reads>>
  /\ UNCHANGED <<utilityVars, receiverVars, storageVars, cancelledAt, others>>

\* Send the file end marker; sendFile returns to the loop of sendFiles.
SendFileEnd ==
  /\ spc = "end"
  /\ Send(<<FileEndMsg(fileId, transfer.hash)>>)
  /\ IF si < Len(files)
       THEN /\ si' = si + 1
            /\ spc' = "file"
       ELSE /\ si' = si
            /\ spc' = "complete"
  /\ UNCHANGED <<files, offset, piece, seen, slept, reads, activeTransfers, transfer,
                 sEvents>>
  /\ UNCHANGED <<utilityVars, receiverVars, storageVars, cancelledAt, others>>

\* sendFiles after the loop: the completion message.
SendComplete ==
  /\ spc = "complete"
  /\ Send(<<CompleteMsg>>)
  /\ spc' = "done"
  /\ UNCHANGED <<files, si, offset, piece, seen, slept, reads, activeTransfers, transfer,
                 sEvents>>
  /\ UNCHANGED <<utilityVars, receiverVars, storageVars, cancelledAt, others>>

\* The channel transmits buffered bytes.
Drain ==
  /\ bufferedAmount > 0
  /\ \E n \in 1 .. bufferedAmount : bufferedAmount' = bufferedAmount - n
  /\ UNCHANGED <<senderVars, wire>>
  /\ UNCHANGED <<utilityVars, receiverVars, storageVars, cancelledAt, others>>

\* ------------------------------------------------------------------ storage
RemoveAt(s, k) == [j \in 1 .. (Len(s) - 1) |-> IF j < k THEN s[j] ELSE s[j + 1]]

\* Array.prototype.sort with (a, b) => a.offset - b.offset: a stable sort.
RECURSIVE InsertByOffset(_, _)
InsertByOffset(sorted, c) ==
  IF sorted = <<>> THEN <<c>>
  ELSE IF sorted[Len(sorted)].offset <= c.offset THEN Append(sorted, c)
  ELSE Append(InsertByOffset(SubSeq(sorted, 1, Len(sorted) - 1), c),
              sorted[Len(sorted)])

RECURSIVE SortByOffset(_)
SortByOffset(chunks) ==
  IF chunks = <<>> THEN <<>>
  ELSE InsertByOffset(SortByOffset(SubSeq(chunks, 1, Len(chunks) - 1)),
                      chunks[Len(chunks)])

\* The reassembly loop of finalizeFile and calculateFileHash: the chunks'
\* data written one after the other, each at the end of the previous one.
RECURSIVE Reassemble(_)
Reassemble(chunks) ==
  IF chunks = <<>> THEN <<>> ELSE chunks[1].data \o Reassemble(Tail(chunks))

\* prepareReceive's loop: a fresh temp entry for every file of the manifest.
PrepareTemp(tf, fs) ==
  LET ids == { fs[k].id : k \in 1 .. Len(fs) } IN
  [id \in DOMAIN tf \cup ids |-> IF id \in ids THEN <<>> ELSE tf[id]]

\* prepareReceive awaits the directory picker in this case.
NeedsDirectoryPrompt == fsAccessSupported /\ ~directoryHandle

\* saveFile awaits real I/O (a directory handle or OPFS); only the download
\* fallback runs to its end without yielding to another message.
SaveIsAsync == directoryHandle \/ opfsSupported

\* calculateFileHash: found = FALSE stands for the throw
\* `File ${fileId} not found`.
CalculateFileHash(tf, id) ==
  IF id \notin DOMAIN tf
    THEN [found |-> FALSE, hash |-> NoHash]
    ELSE [found |-> TRUE, hash |-> SHA256(Reassemble(SortByOffset(tf[id])))]

\* ------------------------------------------------------------------ receiver
\* An event as a listener gets it.  manifest is the manifest of a
\* 'complete' event; open, inFlight and handled record the receiver's state
\* when that event is emitted.
Event(type) ==
  [type |-> type, kind |-> "", fileId |-> NoFile, received |-> 0, total |-> 0,
   manifest |-> NoManifest, open |-> {}, inFlight |-> {}, handled |-> EmptyMap]

ErrorEvent(kind, id) == [Event("error") EXCEPT !.kind = kind, !.fileId = id]

ProgressEvent(file) ==
  [Event("progress") EXCEPT
     !.fileId = file.fileId, !.received = file.received, !.total = file.size]

DeclaredIds(mf) == { mf.files[k].id : k \in 1 .. Len(mf.files) }

CompleteEvent ==
  [Event("complete") EXCEPT
     !.manifest = manifest,
     !.open = DeclaredIds(manifest) \ closedFiles,
     !.inFlight = { finalizing[k].fileId : k \in 1 .. Len(finalizing) },
     !.handled = handled]

\* finalizeFile after `await this.saveFile(...)` and the rest of
\* completeFileReceive: the temp entry is deleted, then the hash is verified.
\* Returns the storage and the events as they are when the call ends.
AfterSave(tf, sv, ev, fin) ==
  LET tf2 == MapDelete(tf, fin.fileId)
      sv2 == Append(sv, [name |-> fin.name, data |-> fin.data])
      calculated == CalculateFileHash(tf2, fin.fileId)
  IN [tempFiles |-> tf2,
      saved |-> sv2,
      rEvents |->
        IF fin.hash = NoHash THEN ev
        ELSE IF ~calculated.found
          THEN Append(ev, ErrorEvent("FileNotFound", fin.fileId))
        ELSE IF calculated.hash # fin.hash
          THEN Append(ev, ErrorEvent("IntegrityCheckFailed", fin.fileId))
        ELSE ev]

\* case 'manifest'
OnManifest(m) ==
  /\ manifest' = [received |-> TRUE, files |-> m.files]
  /\ IF NeedsDirectoryPrompt
       THEN /\ preparing' = Append(preparing, m.files)
            /\ UNCHANGED tempFiles
       ELSE /\ tempFiles' = PrepareTemp(tempFiles, m.files)
            /\ UNCHANGED preparing
  /\ UNCHANGED <<currentFile, receivedFiles, finalizing, rEvents, handled,
                 closedFiles, saved>>

\* case 'file-start' of a receiver that opens no file once an error was
\* emitted.
OnFileStart_UnlessFailed(m) ==
  IF \E k \in 1 .. Len(rEvents) : rEvents[k].type = "error"
    THEN UNCHANGED <<manifest, currentFile, receivedFiles, finalizing,
                     preparing, rEvents, handled, closedFiles, tempFiles, saved>>
    ELSE /\ currentFile' = m.fileId
         /\ receivedFiles' = MapSet(receivedFiles, m.fileId,
              [fileId |-> m.fileId, name |-> m.name, size |-> m.size,
               hash |-> m.hash, received |-> 0, expectedChunk |-> NoChunk])
         /\ handled' = [handled EXCEPT ![m.fileId].starts = @ + 1]
         /\ UNCHANGED <<manifest, finalizing, preparing, rEvents, closedFiles,
                        tempFiles, saved>>

\* case 'file-start'
OnFileStart(m) ==
  /\ currentFile' = m.fileId
  /\ receivedFiles' = MapSet(receivedFiles, m.fileId,
       [fileId |-> m.fileId, name |-> m.name, size |-> m.size,
        hash |-> m.hash, received |-> 0, expectedChunk |-> NoChunk])
  /\ handled' = [handled EXCEPT ![m.fileId].starts = @ + 1]
  /\ UNCHANGED <<manifest, finalizing, preparing, rEvents, closedFiles,
                 tempFiles, saved>>

\* case 'chunk': the header is kept for the next message.
ChunkHeaderAccepted(m) ==
  currentFile # NoFile /\ currentFile = m.fileId

OnChunkHeader(m) ==
  /\ IF ChunkHeaderAccepted(m)
       THEN receivedFiles' = [receivedFiles EXCEPT ![currentFile].expectedChunk =
              <<[offset |-> m.offset, size |-> m.size]>>]
       ELSE UNCHANGED receivedFiles
  /\ UNCHANGED <<manifest, currentFile, finalizing, preparing, rEvents,
                 handled, closedFiles, tempFiles, saved>>

\* handleFileChunk's size test accepting a payload shorter than declared.
ChunkSizeOk_AtMost(expected, data) == Len(data) <= expected[1].size

\* handleFileChunk's size test: TRUE when the payload is accepted.
ChunkSizeOk(expected, data) == Len(data) = expected[1].size

\* chunkData.byteLength, had handleFileChunk measured a string by its length.
byteLength_OfString(m) == Len(m.data)

\* chunkData.byteLength: the bytes of an ArrayBuffer; undefined for a string.
byteLength(m) == IF m.binary THEN Len(m.data) ELSE NoLength

\* A message that is not JSON: handleFileChunk(currentFile, event.data).
\* An undefined byteLength differs from every declared size.
OnPayload(m) ==
  LET file == receivedFiles[currentFile] IN
  IF currentFile = NoFile \/ file.expectedChunk = NoChunk
    THEN UNCHANGED <<manifest, currentFile, receivedFiles, finalizing,
                     preparing, rEvents, handled, closedFiles, tempFiles, saved>>
  ELSE IF byteLength(m) = NoLength \/ ~ChunkSizeOk(file.expectedChunk, m.data)
    THEN /\ rEvents' = Append(rEvents, ErrorEvent("ChunkSizeMismatch", currentFile))
         /\ UNCHANGED <<manifest, currentFile, receivedFiles, finalizing,
                        preparing, handled, closedFiles, tempFiles, saved>>
  ELSE IF currentFile \notin DOMAIN tempFiles
    THEN \* writeChunk throws: not found in temp storage
         /\ rEvents' = Append(rEvents, ErrorEvent("NotInTempStorage", currentFile))
         /\ UNCHANGED <<manifest, currentFile, receivedFiles, finalizing,
                        preparing, handled, closedFiles, tempFiles, saved>>
  ELSE LET after == [file EXCEPT
                       !.received = @ + Len(m.data), !.expectedChunk = NoChunk]
       IN /\ tempFiles' = [tempFiles EXCEPT ![currentFile] =
                 Append(@, [offset |-> file.expectedChunk[1].offset, data |-> m.data])]
          /\ receivedFiles' = [receivedFiles EXCEPT ![currentFile] = after]
          /\ rEvents' = Append(rEvents, ProgressEvent(after))
          /\ UNCHANGED <<manifest, currentFile, finalizing, preparing, handled,
                         closedFiles, saved>>

\* case 'file-end': completeFileReceive up to the end of saveFile when the
\* save does not yield, up to `await this.saveFile(...)` when it does.
OnFileEnd(m) ==
  LET id == m.fileId
      file == receivedFiles[id]
  IN
  /\ handled' = [handled EXCEPT ![id].ends = @ + 1]
  /\ IF id \notin DOMAIN receivedFiles
       THEN UNCHANGED <<finalizing, rEvents, closedFiles, tempFiles, saved>>
     ELSE IF id \notin DOMAIN tempFiles
       THEN \* finalizeFile throws: not found
            /\ rEvents' = Append(rEvents, ErrorEvent("FileNotFound", id))
            /\ closedFiles' = closedFiles \cup {id}
            /\ UNCHANGED <<finalizing, tempFiles, saved>>
     ELSE LET sorted == SortByOffset(tempFiles[id])
              fin == [fileId |-> id, name |-> file.name, hash |-> file.hash,
                      data |-> Reassemble(sorted)]
              tf == [tempFiles EXCEPT ![id] = sorted]
          IN IF SaveIsAsync
               THEN /\ finalizing' = Append(finalizing, fin)
                    /\ tempFiles' = tf
                    /\ UNCHANGED <<rEvents, closedFiles, saved>>
               ELSE LET r == AfterSave(tf, saved, rEvents, fin) IN
                    /\ tempFiles' = r.tempFiles
                    /\ saved' = r.saved
                    /\ rEvents' = r.rEvents
                    /\ closedFiles' = closedFiles \cup {id}
                    /\ UNCHANGED finalizing
  /\ UNCHANGED <<manifest, currentFile, receivedFiles, preparing>>

\* case 'complete'
OnComplete ==
  /\ rEvents' = Append(rEvents, CompleteEvent)
  /\ UNCHANGED <<manifest, currentFile, receivedFiles, finalizing, preparing,
                 handled, closedFiles, tempFiles, saved>>

\* The onmessage handler of receiveFiles, up to its first real suspension.
OnMessage(m) ==
  /\ rIdx' = rIdx + 1
  /\ rLast' = m
  /\ IF ~m.json THEN OnPayload(m)
     ELSE CASE m.type = "manifest" -> OnManifest(m)
            [] m.type = "file-start" -> OnFileStart(m)
            [] m.type = "chunk" -> OnChunkHeader(m)
            [] m.type = "file-end" -> OnFileEnd(m)
            [] m.type = "complete" -> OnComplete
            [] OTHER -> UNCHANGED <<manifest, currentFile, receivedFiles,
                          finalizing, preparing, rEvents, handled, closedFiles,
                          tempFiles, saved>>
  /\ UNCHANGED <<fsAccessSupported, opfsSupported, directoryHandle>>

\* The directory picker of a suspended prepareReceive settles (a directory
\* is chosen or not), and prepareReceive runs to its end.
PrepareDone ==
  /\ \E k \in 1 .. Len(preparing), chosen \in BOOLEAN :
       /\ directoryHandle' = (directoryHandle \/ chosen)
       /\ tempFiles' = PrepareTemp(tempFiles, preparing[k])
       /\ preparing' = RemoveAt(preparing, k)
  /\ UNCHANGED <<rIdx, rLast, manifest, currentFile, receivedFiles,
                 finalizing, rEvents, handled, closedFiles>>
  /\ UNCHANGED <<fsAccessSupported, opfsSupported, saved>>
  /\ UNCHANGED <<utilityVars, senderVars, channelVars>>

\* The save of a suspended finalizeFile ends, and completeFileReceive runs
\* to its end.
SaveDone ==
  /\ \E k \in 1 .. Len(finalizing) :
       LET r == AfterSave(tempFiles, saved, rEvents, finalizing[k]) IN
       /\ tempFiles' = r.tempFiles
       /\ saved' = r.saved
       /\ rEvents' = r.rEvents
       /\ closedFiles' = closedFiles \cup {finalizing[k].fileId}
       /\ finalizing' = RemoveAt(finalizing, k)
  /\ UNCHANGED <<rIdx, rLast, manifest, currentFile, receivedFiles, preparing,
                 handled>>
  /\ UNCHANGED <<fsAccessSupported, opfsSupported, directoryHandle>>
  /\ UNCHANGED <<utilityVars, senderVars, channelVars>>

\* The channel delivers the next message of the sender to the receiver.
Deliver ==
  /\ rIdx < Len(wire)
  /\ OnMessage(wire[rIdx + 1])
  /\ UNCHANGED <<utilityVars, senderVars, channelVars>>

\* ------------------------------------------------------------------ a peer
\* What a remote peer may put on the channel of a receiver: the messages of
\* the protocol about files of PeerFileSize bytes, with and without a digest,
\* chunk headers of any offset and size, payloads of any content.
PeerFile(id) == FileOf(id, MaxPieceLen)

PeerManifests ==
  { ManifestMsg([k \in 1 .. n |-> PeerFile(k - 1)]) : n \in 1 .. MaxFiles }

PeerFileStart(id, withHash) ==
  [Msg("file-start") EXCEPT
     !.fileId = id, !.name = id, !.size = PeerFile(id).size,
     !.hash = IF withHash THEN SHA256(FileBytes(id, PeerFile(id).size))
              ELSE NoHash]

PeerFileStarts ==
  { PeerFileStart(id, withHash) : id \in FileIds, withHash \in BOOLEAN }

\* Headers of chunks that lie within the peer's file.
PeerChunkHeaders ==
  UNION { { ChunkHeaderMsg(id, off, n) : n \in 1 .. (PeerFile(id).size - off) }
          : id \in FileIds, off \in 0 .. (MaxPieceLen - 1) }

PeerPayloads ==
  { PayloadMsg(d) : d \in UNION { [1 .. n -> Byte] : n \in 1 .. MaxPieceLen } }

PeerFileEnds == { FileEndMsg(id, NoHash) : id \in FileIds }

PeerMsgs ==
  PeerManifests \cup PeerFileStarts \cup PeerChunkHeaders \cup PeerPayloads
    \cup PeerFileEnds \cup {CompleteMsg}

\* The peer follows the order of the protocol: the manifest first or not at
\* all, the files one after the other in the order of their ids, each from
\* its file-start to its file-end, chunk headers and payloads only while a
\* file is being sent, and nothing after the completion message, which it
\* may send at any time.  Within a file it may send any header and any
\* payload in any order.
PeerSending(id) == handled[id].starts = 1 /\ handled[id].ends = 0

PeerDone == \E k \in 1 .. Len(rEvents) : rEvents[k].type = "complete"

PeerMaySend(m) ==
  /\ ~PeerDone
  /\ IF m.binary THEN \E id \in FileIds : PeerSending(id)
     ELSE CASE m.type = "manifest" -> rIdx = 0
            [] m.type = "file-start" ->
                 /\ handled[m.fileId].starts = 0
                 /\ \A j \in FileIds : j < m.fileId => handled[j].ends = 1
            [] m.type = "chunk" -> PeerSending(m.fileId)
            [] m.type = "file-end" -> PeerSending(m.fileId)
            [] OTHER -> TRUE

\* A message of the peer arrives.
PeerDeliver ==
  /\ rIdx < MaxMsgs
  /\ \E m \in PeerMsgs : PeerMaySend(m) /\ OnMessage(m)
  /\ UNCHANGED <<utilityVars, senderVars, channelVars>>

\* Text that is not JSON, of every length a payload may have.
PeerTexts == { TextMsg([k \in 1 .. n |-> 0]) : n \in 1 .. MaxPieceLen }

\* A message of a peer that may send text that is not JSON at any time.
NoisyDeliver ==
  /\ rIdx < MaxNoisyMsgs
  /\ \E m \in PeerMsgs \cup PeerTexts : PeerMaySend(m) /\ OnMessage(m)
  /\ UNCHANGED <<utilityVars, senderVars, channelVars>>

\* A peer that keeps the order of sendFiles: the manifest first, a payload
\* only after a chunk header, a chunk header only when the last one has been
\* consumed and for the next offset of the file, the completion message
\* after the last file of the manifest.  Its payloads may still have any
\* length and content, and its files may carry a digest or not.
OrderlyMaySend(m) ==
  /\ PeerMaySend(m)
  /\ (rIdx = 0) = (~m.binary /\ m.type = "manifest")
  /\ m.binary =>
       /\ currentFile \in DOMAIN receivedFiles
       /\ receivedFiles[currentFile].expectedChunk # NoChunk
  /\ (~m.binary /\ m.type = "chunk") =>
       /\ currentFile = m.fileId
       /\ receivedFiles[currentFile].expectedChunk = NoChunk
       /\ receivedFiles[currentFile].received = m.offset
  /\ (~m.binary /\ m.type = "complete") =>
       \A id \in DeclaredIds(manifest) : handled[id].ends = 1

OrderlyDeliver ==
  /\ rIdx < MaxOrderlyMsgs
  /\ \E m \in PeerMsgs : OrderlyMaySend(m) /\ OnMessage(m)
  /\ UNCHANGED <<utilityVars, senderVars, channelVars>>

\* ------------------------------------------------------------------ calls
\* The next send of the other sendFile call.
OtherCallSends ==
  /\ Len(others) < Len(OtherSends)
  /\ Send(OtherSends[Len(others) + 1])
  /\ others' = Append(others, Len(wire) + 1)
  /\ UNCHANGED <<files, spc, si, offset, piece, seen, slept, reads,
                 activeTransfers, transfer, cancelledAt, sEvents>>
  /\ UNCHANGED <<utilityVars, receiverVars, storageVars>>

\* sendFile(file, id) has been called and has not returned.
InSendFile(id) ==
  id = fileId /\ spc \in {"hash", "read", "wait", "sleep", "send", "end"}

\* The chunks of file id that sendFile has begun: the values reader.read()
\* has returned, and the one a pending reader.read() is about to return.
ChunksBegun(id) ==
  (IF id \in DOMAIN reads THEN Len(reads[id]) ELSE 0)
    + (IF id = fileId /\ spc = "read" THEN 1 ELSE 0)

\* cancelledAt after a cancel of the files in ids: for the file that sendFile
\* is sending, the number of chunks begun when it was cancelled first.
NoteCancel(ids) ==
  [id \in DOMAIN cancelledAt \cup { j \in ids : InSendFile(j) } |->
     IF id \in DOMAIN cancelledAt THEN cancelledAt[id] ELSE ChunksBegun(id)]

\* cancelTransfer(fileId) for a file that is tracked.
CancelTransfer ==
  /\ \E id \in DOMAIN activeTransfers :
       /\ activeTransfers' = MapDelete(activeTransfers, id)
       /\ cancelledAt' = NoteCancel({id})
  /\ UNCHANGED <<files, spc, si, offset, piece, seen, slept, reads, transfer,
                 others, sEvents, channelVars>>
  /\ UNCHANGED <<utilityVars, receiverVars, storageVars>>

\* cancelAllTransfers() while a file is tracked.
CancelAllTransfers ==
  /\ activeTransfers # EmptyMap
  /\ activeTransfers' = EmptyMap
  /\ cancelledAt' = NoteCancel(DOMAIN activeTransfers)
  /\ UNCHANGED <<files, spc, si, offset, piece, seen, slept, reads, transfer,
                 others, sEvents, channelVars>>
  /\ UNCHANGED <<utilityVars, receiverVars, storageVars>>

\* An event of the sender's listeners.
SenderEvent(type) ==
  [type |-> type, kind |-> "", fileId |-> NoFile, sent |-> 0, total |-> 0]

\* A step of sendFiles throws: dataChannel.send on a channel that is not
\* open, calculateSHA256 or reader.read() rejecting.  sendFile rethrows, the
\* catch of sendFiles emits 'error' and rethrows.
SendThrows ==
  /\ spc \in {"start", "hash", "read", "send", "end", "complete"}
  /\ sEvents' = Append(sEvents, SenderEvent("error"))
  /\ spc' = "failed"
  /\ UNCHANGED <<files, si, offset, piece, seen, slept, reads, activeTransfers,
                 transfer, cancelledAt, others, channelVars>>
  /\ UNCHANGED <<utilityVars, receiverVars, storageVars>>

\* ------------------------------------------------------------------ strings
\* A string is a sequence of characters.  The characters of a pairing
\* payload's text: "a" a printable ASCII character, " " a space, "LF" a line
\* feed, "w" a character above U+00FF.  The other elements that occur are
\* the units a serialized form is made of: punctuation, a key, an enumerated
\* value, the decimal digits of a number, a tag.
Char == {"a", " ", "LF", "w"}

Strings(n) == UNION { [1 .. k -> Char] : k \in 0 .. n }

RECURSIVE Reverse(_)
Reverse(s) == IF s = <<>> THEN <<>> ELSE Append(Reverse(Tail(s)), s[1])

StartsWith(s, tag) == Len(s) >= 1 /\ s[1] = tag

\* A thrown exception as a value: ok = FALSE.
Thrown == [ok |-> FALSE, text |-> <<>>]

Returned(text) == [ok |-> TRUE, text |-> text]

\* JSON.stringify of a string's characters: a line feed becomes the two
\* characters backslash and n, every other character stands for itself.
RECURSIVE Escape(_)
Escape(s) ==
  IF s = <<>> THEN <<>>
  ELSE (IF s[1] = "LF" THEN <<"\\", "n">> ELSE <<s[1]>>) \o Escape(Tail(s))

\* JSON.parse of the characters between the quotes of a string.
RECURSIVE Unescape(_)
Unescape(s) ==
  IF s = <<>> THEN <<>>
  ELSE IF s[1] = "\\" /\ Len(s) >= 2 /\ s[2] = "n"
    THEN <<"LF">> \o Unescape(Tail(Tail(s)))
  ELSE <<s[1]>> \o Unescape(Tail(s))

\* TextEncoder.encode followed by String.fromCharCode: the UTF-8 bytes of a
\* string as characters; a character above U+00FF becomes two of them.
RECURSIVE Utf8(_)
Utf8(s) ==
  IF s = <<>> THEN <<>>
  ELSE (IF s[1] = "w" THEN <<"w1", "w2">> ELSE <<s[1]>>) \o Utf8(Tail(s))

\* TextDecoder.decode of those bytes.
RECURSIVE Utf8Decode(_)
Utf8Decode(s) ==
  IF s = <<>> THEN <<>>
  ELSE IF s[1] = "w1" /\ Len(s) >= 2 /\ s[2] = "w2"
    THEN <<"w">> \o Utf8Decode(Tail(Tail(s)))
  ELSE <<s[1]>> \o Utf8Decode(Tail(s))

\* CompressionStream('gzip'): the gzip magic number, then a body from which
\* the input can be rebuilt (here: the input reversed).
Gzip(bytes) == <<"1f8b">> \o Reverse(bytes)

\* DecompressionStream('gzip'): throws on input that is not gzip.
Gunzip(bytes) ==
  IF StartsWith(bytes, "1f8b") THEN Returned(Reverse(Tail(bytes))) ELSE Thrown

\* btoa: throws InvalidCharacterError on a character above U+00FF; the
\* base64 text is the input behind a mark that only base64 text carries.
Btoa(s) ==
  IF \E k \in 1 .. Len(s) : s[k] = "w" THEN Thrown
  ELSE Returned(<<"b64">> \o s)

\* atob: throws on text that is not base64.
Atob(s) == IF StartsWith(s, "b64") THEN Returned(Tail(s)) ELSE Thrown

\* str.replace(/\s+/g, ' '): every run of white space becomes one space.
RECURSIVE CollapseSpaces(_)
CollapseSpaces(s) ==
  IF s = <<>> THEN <<>>
  ELSE IF s[1] = " " /\ Len(s) >= 2 /\ s[2] = " "
    THEN CollapseSpaces(Tail(s))
  ELSE <<s[1]>> \o CollapseSpaces(Tail(s))

\* ------------------------------------------------------------------ pairing data
\* Pairing data as the codecs build and return it.  version is "" and
\* timestamp is NoTimestamp when the key is absent; role holds the value of
\* the key `role` (SignalingManager) or `type` (qr-utils).
NoTimestamp == -1

NoData == [version |-> "", timestamp |-> NoTimestamp, role |-> "", sdp |-> <<>>]

Clock == 0 .. MaxClock

\* JSON.stringify of SignalingManager's pairingData: version, timestamp, then
\* the keys of `data`.
StringifyPairing(d) ==
  <<"{", "version", d.version, "timestamp", ToString(d.timestamp),
    "role", d.role, "sdp", "\"">> \o Escape(d.sdp) \o <<"\"", "}">>

\* JSON.stringify of qr-utils' pairingData: the keys of `data`, then timestamp.
StringifyQr(d) ==
  <<"{", "type", d.role, "sdp", "\"">> \o Escape(d.sdp)
    \o <<"\"", "timestamp", ToString(d.timestamp), "}">>

\* The position of the first quote of s at or after k, 0 when there is none.
RECURSIVE QuoteAt(_, _)
QuoteAt(s, k) ==
  IF k > Len(s) THEN 0 ELSE IF s[k] = "\"" THEN k ELSE QuoteAt(s, k + 1)

NotJson == [ok |-> FALSE, data |-> NoData]

\* JSON.parse of the members of an object, d holding the members read so far.
RECURSIVE ParseMembers(_, _)
ParseMembers(s, d) ==
  IF s = <<"}">> THEN [ok |-> TRUE, data |-> d]
  ELSE IF Len(s) < 3 THEN NotJson
  ELSE IF s[1] = "version"
    THEN ParseMembers(SubSeq(s, 3, Len(s)), [d EXCEPT !.version = s[2]])
  ELSE IF s[1] \in {"role", "type"}
    THEN ParseMembers(SubSeq(s, 3, Len(s)), [d EXCEPT !.role = s[2]])
  ELSE IF s[1] = "timestamp"
    THEN IF \E t \in Clock : ToString(t) = s[2]
           THEN ParseMembers(SubSeq(s, 3, Len(s)),
                  [d EXCEPT !.timestamp = CHOOSE t \in Clock : ToString(t) = s[2]])
           ELSE NotJson
  ELSE IF s[1] = "sdp" /\ s[2] = "\""
    THEN LET q == QuoteAt(s, 3) IN
         IF q = 0 THEN NotJson
         ELSE ParseMembers(SubSeq(s, q + 1, Len(s)),
                [d EXCEPT !.sdp = Unescape(SubSeq(s, 3, q - 1))])
  ELSE NotJson

\* JSON.parse: ok = FALSE stands for the SyntaxError.
JsonParse(s) ==
  IF StartsWith(s, "{") THEN ParseMembers(Tail(s), NoData) ELSE NotJson

\* ------------------------------------------------------------------ signaling
\* `jsonString.length > 500`, scaled: of the pairing data of the model only
\* those with an sdp of one character serialize to no more than this.
CompressionThreshold == 12

\* 10 * 60 * 1000 ms, scaled to ticks of the clock.
ValidityWindow == 1

\* SignalingManager.compress; a throw inside is caught and str returned.
compress(str, cs) ==
  IF cs
    THEN LET b == Btoa(Gzip(Utf8(str))) IN
         IF b.ok THEN <<"GZIP:">> \o b.text ELSE str
    ELSE <<"SIMPLE:">> \o CollapseSpaces(str)

\* SignalingManager.isCompressed
isCompressed(str) == StartsWith(str, "GZIP:") \/ StartsWith(str, "SIMPLE:")

\* SignalingManager.decompress; a throw inside is caught and str returned.
decompress(str, ds) ==
  IF StartsWith(str, "GZIP:")
    THEN IF ds
           THEN LET a == Atob(Tail(str)) IN
                IF ~a.ok THEN str
                ELSE LET g == Gunzip(a.text) IN
                     IF g.ok THEN Utf8Decode(g.text) ELSE str
           ELSE str
  ELSE IF StartsWith(str, "SIMPLE:") THEN Tail(str)
  ELSE str

\* The pairing data createPairingCode serializes for `d` at time now.
PairingData(d, now) ==
  [version |-> "1.0", timestamp |-> now, role |-> d.role, sdp |-> d.sdp]

\* createPairingCode, had it compressed from the threshold on
\* (jsonString.length >= 500).
createPairingCode_FromThreshold(d, now, cs) ==
  LET jsonString == StringifyPairing(PairingData(d, now)) IN
  Btoa(IF compressionEnabled /\ Len(jsonString) >= CompressionThreshold
         THEN compress(jsonString, cs)
         ELSE jsonString)

\* SignalingManager.createPairingCode; not ok stands for the throw
\* 'Failed to generate pairing code'.
createPairingCode(d, now, cs) ==
  LET jsonString == StringifyPairing(PairingData(d, now)) IN
  Btoa(IF compressionEnabled /\ Len(jsonString) > CompressionThreshold
         THEN compress(jsonString, cs)
         ELSE jsonString)

Rejected(error) == [ok |-> FALSE, data |-> NoData, error |-> error]

Accepted(d) == [ok |-> TRUE, data |-> d, error |-> ""]

\* SignalingManager.parsePairingCode: every throw inside is replaced by
\* 'Invalid or corrupted pairing code'.
parsePairingCode(text, ds) ==
  LET a == Atob(text) IN
  IF ~a.ok THEN Rejected("Invalid or corrupted pairing code")
  ELSE LET jsonString == IF isCompressed(a.text) THEN decompress(a.text, ds)
                         ELSE a.text
           p == JsonParse(jsonString)
       IN IF ~p.ok THEN Rejected("Invalid or corrupted pairing code")
          ELSE IF p.data.version = "" \/ p.data.role = "" \/ p.data.sdp = <<>>
            THEN Rejected("Invalid or corrupted pairing code")
          ELSE Accepted(p.data)

\* ------------------------------------------------------------------ qr-utils
\* compressData
compressData(str, cs) == IF cs THEN Gzip(Utf8(str)) ELSE str

\* decompressData: input that does not decompress is taken as uncompressed.
decompressData(str, ds) ==
  IF ds
    THEN LET g == Gunzip(str) IN IF g.ok THEN Utf8Decode(g.text) ELSE str
    ELSE str

\* The pairing data generatePairingCode serializes for `d` at time now.
QrPairingData(d, now) ==
  [version |-> "", timestamp |-> now, role |-> d.role, sdp |-> d.sdp]

\* generatePairingCode; not ok stands for the exception of btoa.
generatePairingCode(d, now, cs) ==
  Btoa(compressData(StringifyQr(QrPairingData(d, now)), cs))

\* qr-utils' parsePairingCode: every throw inside, the one for an expired
\* code included, is replaced by 'Invalid pairing code'.
qr_parsePairingCode(text, now, ds) ==
  LET a == Atob(text) IN
  IF ~a.ok THEN Rejected("Invalid pairing code")
  ELSE LET p == JsonParse(decompressData(a.text, ds)) IN
       IF ~p.ok THEN Rejected("Invalid pairing code")
       ELSE IF p.data.timestamp # NoTimestamp
               /\ now - p.data.timestamp > ValidityWindow
         THEN Rejected("Invalid pairing code")
       ELSE Accepted(p.data)

\* ------------------------------------------------------------------ codec calls
\* The pairing payloads a caller passes to an encode call.
Payloads ==
  { [role |-> r, sdp |-> t] :
      r \in {"offer", "answer"}, t \in Strings(MaxSdpLen) \ {<<>>} }

\* JSON.stringify of an object that holds only some of the members of
\* pairing data, the role under the key `key` ('role' or 'type').
StringifyMembers(d, key) ==
  <<"{">>
    \o (IF d.version = "" THEN <<>> ELSE <<"version", d.version>>)
    \o (IF d.timestamp = NoTimestamp THEN <<>>
        ELSE <<"timestamp", ToString(d.timestamp)>>)
    \o (IF d.role = "" THEN <<>> ELSE <<key, d.role>>)
    \o (IF d.sdp = <<>> THEN <<>>
        ELSE <<"sdp", "\"">> \o Escape(d.sdp) \o <<"\"">>)
    \o <<"}">>

\* Objects with and without each member of pairing data.
EnteredData ==
  { [version |-> v, timestamp |-> t, role |-> r, sdp |-> x] :
      v \in {"", "1.0"}, t \in {NoTimestamp} \cup Clock,
      r \in {"", "offer"}, x \in {<<>>, <<"a">>} }

\* The texts a user enters as a pairing code: text that is not base64,
\* base64 of text that is not JSON, base64 of the JSON text of an object.
EnteredCodes(key) ==
  {<<"a">>, Btoa(<<"a">>).text}
    \cup { Btoa(StringifyMembers(d, key)).text : d \in EnteredData }

\* No codec call is made.
CodecIdle ==
  /\ cpc = "idle"
  /\ codec = ""
  /\ payload = [role |-> "offer", sdp |-> <<"a">>]
  /\ clock = 0
  /\ stamped = 0
  /\ code = Thrown
  /\ parsed = Rejected("")
  /\ parsedAt = 0
  /\ parses = 0
  /\ compressionEnabled = TRUE
  /\ encoderCS = FALSE
  /\ decoderDS = FALSE

CodecInit ==
  /\ cpc = "idle"
  /\ codec = ""
  /\ payload = [role |-> "offer", sdp |-> <<"a">>]
  /\ clock = 0
  /\ stamped = 0
  /\ code = Thrown
  /\ parsed = Rejected("")
  /\ parsedAt = 0
  /\ parses = 0
  /\ compressionEnabled = TRUE
  /\ encoderCS \in BOOLEAN
  /\ decoderDS \in BOOLEAN

\* Time passes.
Tick ==
  /\ clock < MaxClock
  /\ clock' = clock + 1
  /\ UNCHANGED <<compressionEnabled, cpc, codec, payload, stamped, code,
                 parsed, parsedAt, parses, encoderCS, decoderDS>>
  /\ UNCHANGED <<transferVars, optimizerVars, emitterVars, hookVars, autoVars>>

\* A call of SignalingManager.createPairingCode(data).
CreatePairingCode ==
  /\ cpc = "idle"
  /\ payload' \in Payloads
  /\ code' = createPairingCode(payload', clock, encoderCS)
  /\ codec' = "SignalingManager"
  /\ stamped' = clock
  /\ cpc' = "encoded"
  /\ UNCHANGED <<compressionEnabled, clock, parsed, parsedAt, parses,
                 encoderCS, decoderDS>>
  /\ UNCHANGED <<transferVars, optimizerVars, emitterVars, hookVars, autoVars>>

\* The user enters a pairing code; the application will hand it to
\* SignalingManager.parsePairingCode (main.js handlePairingCode) or to
\* qr-utils' parsePairingCode (createPeerConnection of the answerer).
EnterCode ==
  /\ cpc = "idle"
  /\ \/ codec' = "SignalingManager" /\ \E t \in EnteredCodes("role") : code' = Returned(t)
     \/ codec' = "qr-utils" /\ \E t \in EnteredCodes("type") : code' = Returned(t)
  /\ cpc' = "typed"
  /\ UNCHANGED <<compressionEnabled, payload, clock, stamped, parsed, parsedAt,
                 parses, encoderCS, decoderDS>>
  /\ UNCHANGED <<transferVars, optimizerVars, emitterVars, hookVars, autoVars>>

\* The position after a parse call: of a code that was made, or entered.
AfterParse(pc) == IF pc \in {"encoded", "parsed"} THEN "parsed" ELSE "answered"

\* parsePairingCode, had it kept in this.compressionEnabled whether the code
\* it was given was compressed.
ParsePairingCode_Remembers ==
  /\ cpc # "idle" /\ codec = "SignalingManager" /\ code.ok
  /\ parses < MaxParses
  /\ parsed' = parsePairingCode(code.text, decoderDS)
  /\ parsedAt' = clock
  /\ parses' = parses + 1
  /\ cpc' = AfterParse(cpc)
  /\ compressionEnabled' = isCompressed(Atob(code.text).text)
  /\ UNCHANGED <<codec, payload, clock, stamped, code, encoderCS, decoderDS>>
  /\ UNCHANGED <<transferVars, optimizerVars, emitterVars, hookVars, autoVars>>

\* A call of SignalingManager.parsePairingCode(code) on the other device,
\* for the first time or again.
ParsePairingCode ==
  /\ cpc # "idle" /\ codec = "SignalingManager" /\ code.ok
  /\ parses < MaxParses
  /\ parsed' = parsePairingCode(code.text, decoderDS)
  /\ parsedAt' = clock
  /\ parses' = parses + 1
  /\ cpc' = AfterParse(cpc)
  /\ UNCHANGED <<compressionEnabled, codec, payload, clock, stamped, code,
                 encoderCS, decoderDS>>
  /\ UNCHANGED <<transferVars, optimizerVars, emitterVars, hookVars, autoVars>>

\* A call of qr-utils' generatePairingCode(data).
GeneratePairingCode ==
  /\ cpc = "idle"
  /\ payload' \in Payloads
  /\ code' = generatePairingCode(payload', clock, encoderCS)
  /\ codec' = "qr-utils"
  /\ stamped' = clock
  /\ cpc' = "encoded"
  /\ UNCHANGED <<compressionEnabled, clock, parsed, parsedAt, parses,
                 encoderCS, decoderDS>>
  /\ UNCHANGED <<transferVars, optimizerVars, emitterVars, hookVars, autoVars>>

\* A call of qr-utils' parsePairingCode(code) on the other device, for the
\* first time or again.
QrParsePairingCode ==
  /\ cpc # "idle" /\ codec = "qr-utils" /\ code.ok
  /\ parses < MaxParses
  /\ parsed' = qr_parsePairingCode(code.text, clock, decoderDS)
  /\ parsedAt' = clock
  /\ parses' = parses + 1
  /\ cpc' = AfterParse(cpc)
  /\ UNCHANGED <<compressionEnabled, codec, payload, clock, stamped, code,
                 encoderCS, decoderDS>>
  /\ UNCHANGED <<transferVars, optimizerVars, emitterVars, hookVars, autoVars>>

\* ------------------------------------------------------------------ chunk size
KiB == 1024
MiB == 1024 * 1024

\* deviceMemory is counted in quarters of a GiB (the API reports 0.25 to 8).
GiB == 4

Max(a, b) == IF a > b THEN a ELSE b

\* A metric that is undefined.
NoValue == -1

\* navigator.connection: "none" when the object is absent, "" when it has no
\* effectiveType, "wifi" for a value that is none of the four classes.
EffectiveTypes == {"none", "", "slow-2g", "2g", "3g", "4g", "wifi"}

\* navigator.deviceMemory: 0 when absent.
DeviceMemories == {0, 1, 2, GiB, 2 * GiB, 4 * GiB, 8 * GiB}

\* Measured speeds (bytes per second) and latencies (ms) on both sides of
\* the tests of getAdaptiveChunkSize.
Speeds == {NoValue, 0, 128 * KiB - 1, 128 * KiB, MiB, MiB + 1}
Latencies == {NoValue, 200, 201}

TransferIds == 0 .. (MaxTransfers - 1)

\* value || 4
MemoryOr4(dm) == IF dm = 0 THEN 4 * GiB ELSE dm

\* PerformanceOptimizer.getOptimalChunkSize
PerformanceOptimizer_getOptimalChunkSize(et, dm) ==
  LET memory == MemoryOr4(dm)
      byType == IF et \in {"none", ""} THEN 64 * KiB
                ELSE IF et = "4g" THEN 512 * KiB
                ELSE IF et = "3g" THEN 128 * KiB
                ELSE IF et = "2g" THEN 32 * KiB
                ELSE 256 * KiB
      baseSize == IF memory >= 8 * GiB THEN byType * 2
                  ELSE IF memory <= 2 * GiB THEN Max(byType \div 2, 16 * KiB)
                  ELSE byType
  IN Min(baseSize, 2 * MiB)

\* `speed && speed < 128 * 1024` with the division of getAdaptiveChunkSize
\* left unclamped.
Slower_Unclamped(baseSize) == baseSize \div 2

\* baseSize = Math.max(baseSize / 2, 16 * 1024)
Slower(baseSize) == Max(baseSize \div 2, 16 * KiB)

\* PerformanceOptimizer.getAdaptiveChunkSize.  Every baseSize met is a whole
\* number, so Math.floor of the maximum with 32 KiB is the maximum of 32 KiB
\* and the floor of baseSize / 1.5 = 2 * baseSize / 3.
getAdaptiveChunkSize(metrics, id, et, dm) ==
  IF id \notin DOMAIN metrics THEN PerformanceOptimizer_getOptimalChunkSize(et, dm)
  ELSE
    LET speed == metrics[id].speed
        latency == metrics[id].latency
        measured == speed # NoValue /\ speed # 0
        optimal == PerformanceOptimizer_getOptimalChunkSize(et, dm)
        bySpeed == IF measured /\ speed > MiB THEN Min(optimal * 2, 2 * MiB)
                   ELSE IF measured /\ speed < 128 * KiB THEN Slower(optimal)
                   ELSE optimal
    IN IF latency # NoValue /\ latency > 200
         THEN Max((2 * bySpeed) \div 3, 32 * KiB)
         ELSE bySpeed

\* FileTransferManager.getOptimalChunkSize
getOptimalChunkSize(et, dm) ==
  LET memoryGB == MemoryOr4(dm)
      byType == IF et = "none" THEN 64 * KiB
                ELSE IF et = "4g" THEN 256 * KiB
                ELSE IF et = "3g" THEN 32 * KiB
                ELSE IF et \in {"2g", "slow-2g"} THEN 16 * KiB
                ELSE 128 * KiB
      baseChunkSize == IF memoryGB >= 8 * GiB THEN byType * 2
                       ELSE IF memoryGB <= 2 * GiB THEN Max(byType \div 2, 16 * KiB)
                       ELSE byType
  IN Min(baseChunkSize, MiB)

Called(fn, size) == [fn |-> fn, size |-> size]

\* No heuristic is called.
OptimizerIdle ==
  /\ effectiveType = "none"
  /\ deviceMemory = 0
  /\ connectionMetrics = EmptyMap
  /\ chunk = Called("", 0)

\* A device and a network; no metrics are recorded yet.
OptimizerInit ==
  /\ effectiveType \in EffectiveTypes
  /\ deviceMemory \in DeviceMemories
  /\ connectionMetrics = EmptyMap
  /\ chunk = Called("", 0)

\* PerformanceOptimizer.updateMetrics(transferId, metrics): the members of
\* metrics replace those recorded.  (The timestamp it adds is read by no
\* method of the class.)
UpdateMetrics ==
  /\ \E id \in TransferIds, speed \in Speeds, latency \in Latencies :
       LET old == IF id \in DOMAIN connectionMetrics THEN connectionMetrics[id]
                  ELSE [speed |-> NoValue, latency |-> NoValue]
           merged == [speed |-> IF speed = NoValue THEN old.speed ELSE speed,
                      latency |-> IF latency = NoValue THEN old.latency
                                  ELSE latency]
       IN connectionMetrics' = MapSet(connectionMetrics, id, merged)
  /\ UNCHANGED <<effectiveType, deviceMemory, chunk>>
  /\ UNCHANGED <<transferVars, codecVars, emitterVars, hookVars, autoVars>>

\* PerformanceOptimizer.getOptimalConfig(): its chunkSize.
GetOptimalConfig ==
  /\ chunk' = Called("PerformanceOptimizer.getOptimalChunkSize",
                     PerformanceOptimizer_getOptimalChunkSize(effectiveType,
                                                              deviceMemory))
  /\ UNCHANGED <<effectiveType, deviceMemory, connectionMetrics>>
  /\ UNCHANGED <<transferVars, codecVars, emitterVars, hookVars, autoVars>>

\* PerformanceOptimizer.getAdaptiveChunkSize(transferId)
GetAdaptiveChunkSize ==
  /\ \E id \in TransferIds :
       chunk' = Called("PerformanceOptimizer.getAdaptiveChunkSize",
                       getAdaptiveChunkSize(connectionMetrics, id,
                                            effectiveType, deviceMemory))
  /\ UNCHANGED <<effectiveType, deviceMemory, connectionMetrics>>
  /\ UNCHANGED <<transferVars, codecVars, emitterVars, hookVars, autoVars>>

\* new FileTransferManager(): this.chunkSize = this.getOptimalChunkSize()
NewFileTransferManager ==
  /\ chunk' = Called("FileTransferManager.getOptimalChunkSize",
                     getOptimalChunkSize(effectiveType, deviceMemory))
  /\ UNCHANGED <<effectiveType, deviceMemory, connectionMetrics>>
  /\ UNCHANGED <<transferVars, codecVars, emitterVars, hookVars, autoVars>>

\* ------------------------------------------------------------------ emitters
\* The callbacks that are registered, unregistered and invoked.
Handlers == 1 .. MaxHandlers

\* list.indexOf(h), counted from 1; 0 when h is not in the list.
IndexOf(list, h) ==
  IF \E i \in 1 .. Len(list) : list[i] = h
    THEN CHOOSE i \in 1 .. Len(list) :
           list[i] = h /\ \A j \in 1 .. (i - 1) : list[j] # h
    ELSE 0

\* list.splice(i, 1)
Splice(list, i) == SubSeq(list, 1, i - 1) \o SubSeq(list, i + 1, Len(list))

\* on(event, callback), subscribe(callback): the list after the call.
on(list, h) == Append(list, h)

\* off(event, callback), the function returned by subscribe.
unsubscribe(list, h) ==
  IF IndexOf(list, h) = 0 THEN list ELSE Splice(list, IndexOf(list, h))

\* What a callback may do to the list while it runs: nothing, register a
\* callback, unregister itself or another one.
AfterCallback(list) ==
  {list} \cup { unsubscribe(list, h) : h \in Handlers }
         \cup (IF Len(list) < MaxListeners THEN { on(list, h) : h \in Handlers }
               ELSE {})

EmitterIdle ==
  /\ listeners = <<>>
  /\ epc = "idle"
  /\ ek = 0
  /\ elen = 0
  /\ called = <<>>
  /\ snapshot = <<>>

\* on / subscribe called while no emit runs.
On ==
  /\ epc = "idle"
  /\ Len(listeners) < MaxListeners
  /\ \E h \in Handlers : listeners' = on(listeners, h)
  /\ UNCHANGED <<epc, ek, elen, called, snapshot>>
  /\ UNCHANGED <<transferVars, codecVars, optimizerVars, hookVars, autoVars>>

\* off / unsubscribe called while no emit runs.
Off ==
  /\ epc = "idle"
  /\ \E h \in Handlers : listeners' = unsubscribe(listeners, h)
  /\ UNCHANGED <<epc, ek, elen, called, snapshot>>
  /\ UNCHANGED <<transferVars, codecVars, optimizerVars, hookVars, autoVars>>

\* emit(event, data), notify(changes): listeners.forEach starts and reads
\* the length of the list.
Emit ==
  /\ epc = "idle"
  /\ epc' = "emitting"
  /\ ek' = 0
  /\ elen' = Len(listeners)
  /\ called' = <<>>
  /\ snapshot' = listeners
  /\ UNCHANGED listeners
  /\ UNCHANGED <<transferVars, codecVars, optimizerVars, hookVars, autoVars>>

\* One round of forEach: when the list still has an element at index k the
\* callback there is invoked, and it runs to its end.
Invoke ==
  /\ epc = "emitting"
  /\ ek < elen
  /\ IF ek + 1 <= Len(listeners)
       THEN /\ called' = Append(called, listeners[ek + 1])
            /\ listeners' \in AfterCallback(listeners)
       ELSE UNCHANGED <<called, listeners>>
  /\ ek' = ek + 1
  /\ UNCHANGED <<epc, elen, snapshot>>
  /\ UNCHANGED <<transferVars, codecVars, optimizerVars, hookVars, autoVars>>

\* forEach has reached len: emit returns.
EmitReturns ==
  /\ epc = "emitting"
  /\ ek = elen
  /\ epc' = "idle"
  /\ UNCHANGED <<listeners, ek, elen, called, snapshot>>
  /\ UNCHANGED <<transferVars, codecVars, optimizerVars, hookVars, autoVars>>

\* ------------------------------------------------------------------ transfer hook
\* useFileTransfer (client/src/lib/webrtc.ts:295-438) and the sendData of
\* useWebRTC (243-253).  Each startTransfer call is a coroutine that runs
\* from one await to the next without interruption.

\* const chunkSize = 16 * 1024 in the source, scaled to bytes of the model.
startTransfer_chunkSize == 1

NoController == 0   \* abortControllerRef.current that is null

\* files: File[] of one startTransfer call, as the sizes of the files.
\* One file, or two.
HookFileLists ==
  { <<a>> : a \in 0 .. MaxHookSize }
    \cup { <<a, b>> : a \in 0 .. MaxHookSize, b \in 0 .. MaxHookSize }

RECURSIVE SumSeq(_)
SumSeq(s) == IF s = <<>> THEN 0 ELSE s[1] + SumSeq(Tail(s))

\* A progress value as the fraction num / den.
Fraction(num, den) == [num |-> num, den |-> den]

\* A message of startTransfer, as passed to sendData.
HookMsg(type, call, fileIndex, fileOffset) ==
  [type |-> type, call |-> call, fileIndex |-> fileIndex,
   offset |-> fileOffset]

\* The locals of a startTransfer call that has sent nothing yet; `refused`,
\* `observed`, `unseen`, `after` and `completed` record what the call did.
NewLoop(fs) ==
  [files |-> fs, pc |-> "start", fileIndex |-> 0, fileOffset |-> 0,
   transferredBytes |-> 0,
   refused |-> FALSE,    \* a sendData call of this call returned false
   observed |-> FALSE,   \* one of its tests found signal.aborted true
   unseen |-> FALSE,     \* one of its tests passed though its own controller
                         \* was aborted
   after |-> <<>>,       \* types of the messages it sent after `observed`
   completed |-> FALSE]  \* it has set progress to 100

\* abortControllerRef.current?.signal.aborted, with ctrl the current ref.
SignalAborted(ctrl) == ctrl # NoController /\ ctrl \in aborted

\* sendData(JSON.stringify(message)) within a call: E is [loop, sending, state].
sendData(E, m) ==
  IF readyStateOpen
    THEN [E EXCEPT !.sending = Append(@, m),
                   !.loop.after = IF E.loop.observed THEN Append(@, m.type)
                                  ELSE @]
    ELSE [E EXCEPT !.loop.refused = TRUE]

\* Lines 406-413: after the for loop, however it was left.
AfterFor(c, E) ==
  LET s == sendData(E, HookMsg("transfer-complete", c, NoFile, 0))
  IN [s EXCEPT !.loop.pc = "done", !.loop.completed = TRUE,
               !.state.isTransferring = FALSE,
               !.state.progress = Fraction(100, 1)]

RECURSIVE ForTest(_, _, _)

\* Lines 398-404: the file end marker, then fileIndex++.
AfterWhile(c, ctrl, E) ==
  LET s == sendData(E, HookMsg("file-end", c, E.loop.fileIndex, 0))
  IN ForTest(c, ctrl, [s EXCEPT !.loop.fileIndex = @ + 1])

\* Lines 359-364: the while test, the abort test and the read that is awaited.
WhileTest(c, ctrl, E) ==
  IF E.loop.fileOffset < E.loop.files[E.loop.fileIndex + 1]
    THEN IF SignalAborted(ctrl)
           THEN AfterWhile(c, ctrl, [E EXCEPT !.loop.observed = TRUE])
           ELSE [E EXCEPT !.loop.pc = "reading",
                          !.loop.unseen = @ \/ c \in aborted]
    ELSE AfterWhile(c, ctrl, E)

\* Lines 341-357: the for test, the abort test and the file header.
ForTest(c, ctrl, E) ==
  IF E.loop.fileIndex >= Len(E.loop.files)
    THEN AfterFor(c, E)
    ELSE IF SignalAborted(ctrl)
           THEN AfterFor(c, [E EXCEPT !.loop.observed = TRUE])
           ELSE LET h == [E EXCEPT !.loop.fileOffset = 0,
                                   !.loop.unseen = @ \/ c \in aborted,
                                   !.state.currentFileIndex = E.loop.fileIndex]
                    s == sendData(h, HookMsg("file-start", c,
                                             E.loop.fileIndex, 0))
                IN WhileTest(c, ctrl, s)

HookIdle ==
  /\ readyStateOpen = TRUE
  /\ abortController = NoController
  /\ aborted = {}
  /\ loops = EmptyMap
  /\ transferState = [progress |-> Fraction(0, 1), isTransferring |-> FALSE,
                      currentFileIndex |-> 0, bytesTransferred |-> 0]
  /\ sending = <<>>

Returns(c, E) ==
  /\ loops' = MapSet(loops, c, E.loop)
  /\ transferState' = E.state
  /\ sending' = E.sending

\* startTransfer(files, sendData) up to its first await (lines 312-364).
StartTransfer ==
  /\ Cardinality(DOMAIN loops) < MaxStarts
  /\ \E fs \in HookFileLists :
       LET c == Cardinality(DOMAIN loops) + 1
           E == [loop |-> NewLoop(fs), sending |-> <<>>,
                 state |-> [transferState EXCEPT
                              !.isTransferring = TRUE,
                              !.progress = Fraction(0, 1),
                              !.currentFileIndex = 0,
                              !.bytesTransferred = 0]]
           s == sendData(E, HookMsg("metadata", c, NoFile, 0))
       IN /\ abortController' = c
          /\ Returns(c, ForTest(c, c, s))
  /\ UNCHANGED <<readyStateOpen, aborted>>
  /\ UNCHANGED <<transferVars, codecVars, optimizerVars, emitterVars, autoVars>>

\* `await chunk.arrayBuffer()` resolves: lines 366-395, up to the next await.
ReadDone ==
  /\ \E c \in DOMAIN loops :
       /\ loops[c].pc = "reading"
       /\ LET l == loops[c]
              size == l.files[l.fileIndex + 1]
              chunkEnd == Min(l.fileOffset + startTransfer_chunkSize, size)
              moved == l.transferredBytes + (chunkEnd - l.fileOffset)
              E == [loop |-> l, sending |-> <<>>, state |-> transferState]
              s == sendData(E, HookMsg("file-chunk", c, l.fileIndex,
                                       l.fileOffset))
          IN Returns(c, [s EXCEPT
               !.loop.fileOffset = chunkEnd,
               !.loop.transferredBytes = moved,
               !.loop.pc = "sleeping",
               !.state.progress = Fraction(moved * 100, SumSeq(l.files)),
               !.state.bytesTransferred = moved])
  /\ UNCHANGED <<readyStateOpen, abortController, aborted>>
  /\ UNCHANGED <<transferVars, codecVars, optimizerVars, emitterVars, autoVars>>

\* `await new Promise(resolve => setTimeout(resolve, 1))` resolves: the while
\* test again, and whatever follows up to the next await.
SleepDone ==
  /\ \E c \in DOMAIN loops :
       /\ loops[c].pc = "sleeping"
       /\ Returns(c, WhileTest(c, abortController,
                               [loop |-> loops[c], sending |-> <<>>,
                                state |-> transferState]))
  /\ UNCHANGED <<readyStateOpen, abortController, aborted>>
  /\ UNCHANGED <<transferVars, codecVars, optimizerVars, emitterVars, autoVars>>

\* cancelTransfer (lines 421-426).
HookCancelTransfer ==
  /\ aborted' = IF abortController # NoController
                  THEN aborted \cup {abortController} ELSE aborted
  /\ transferState' = [transferState EXCEPT !.isTransferring = FALSE]
  /\ sending' = <<>>
  /\ UNCHANGED <<readyStateOpen, abortController, loops>>
  /\ UNCHANGED <<transferVars, codecVars, optimizerVars, emitterVars, autoVars>>

\* The data channel leaves the 'open' state (closed by either side).
ChannelCloses ==
  /\ readyStateOpen
  /\ readyStateOpen' = FALSE
  /\ sending' = <<>>
  /\ UNCHANGED <<abortController, aborted, loops, transferState>>
  /\ UNCHANGED <<transferVars, codecVars, optimizerVars, emitterVars, autoVars>>

\* ------------------------------------------------------------------ auto optimizer
\* AutoOptimizer (client/src/lib/auto-optimizer.ts) and the parts of
\* PerformanceOptimizer.getOptimalConfig it stores.

\* navigator.hardwareConcurrency: 0 when absent.
CoreCounts == 0 .. MaxCores

\* The STUN servers preWarmConnections probes, by their index in stunServers.
StunServers == {1, 2}

\* PerformanceOptimizer.getOptimalConcurrency: cores / 2 is a fraction, kept
\* as a number of halves; Math.max with 2 and Math.min with 8 in halves too.
getOptimalConcurrency(cores) ==
  LET halves == IF cores = 0 THEN 4 ELSE cores
  IN [num |-> Min(Max(halves, 2 * 2), 2 * 8), den |-> 2]

\* PerformanceOptimizer.getOptimalBufferSize
getOptimalBufferSize(dm) ==
  LET memory == MemoryOr4(dm)
  IN IF memory >= 8 * GiB THEN 64 * MiB
     ELSE IF memory >= 4 * GiB THEN 32 * MiB
     ELSE 16 * MiB

\* PerformanceOptimizer.shouldUseCompression
shouldUseCompression(et) == et \in {"3g", "2g"}

\* PerformanceOptimizer.getOptimalConfig as optimizeTransfer stores it in
\* window.beamshareOptimalTransfer.
getOptimalConfig(et, dm, cores) ==
  [chunkSize |-> PerformanceOptimizer_getOptimalChunkSize(et, dm),
   maxBuffer |-> getOptimalBufferSize(dm),
   concurrency |-> getOptimalConcurrency(cores),
   useCompression |-> shouldUseCompression(et)]

\* window.beamshareOptimalTransfer before optimizeTransfer has run.
NoConfig ==
  [chunkSize |-> 0, maxBuffer |-> 0, concurrency |-> [num |-> 0, den |-> 1],
   useCompression |-> FALSE]

\* No AutoOptimizer is at work.
AutoIdle ==
  /\ hardwareConcurrency = 0
  /\ isOptimized = FALSE
  /\ warming = EmptyMap
  /\ ran = [step \in {"optimizeWebRTC", "optimizeTransfer", "optimizeUI",
                      "preWarmConnections"} |-> 0]
  /\ beamshareOptimalTransfer = NoConfig

\* new AutoOptimizer() on a device with some number of cores.
AutoInit ==
  /\ hardwareConcurrency \in CoreCounts
  /\ isOptimized = FALSE
  /\ warming = EmptyMap
  /\ ran = [step \in {"optimizeWebRTC", "optimizeTransfer", "optimizeUI",
                      "preWarmConnections"} |-> 0]
  /\ beamshareOptimalTransfer = NoConfig

\* optimizeForSpeed() up to `await this.preWarmConnections()`, or to its
\* return when isOptimized is set.
OptimizeForSpeed ==
  /\ Cardinality(DOMAIN warming) < MaxOptimizeCalls
  /\ LET c == Cardinality(DOMAIN warming) + 1 IN
     IF isOptimized
       THEN /\ warming' = MapSet(warming, c, {})
            /\ UNCHANGED <<ran, beamshareOptimalTransfer>>
       ELSE /\ ran' = [step \in DOMAIN ran |-> ran[step] + 1]
            /\ beamshareOptimalTransfer' =
                 getOptimalConfig(effectiveType, deviceMemory,
                                  hardwareConcurrency)
            /\ warming' = MapSet(warming, c, StunServers)
  /\ UNCHANGED <<hardwareConcurrency, isOptimized>>
  /\ UNCHANGED <<transferVars, codecVars, optimizerVars, emitterVars, hookVars>>

\* One probe of preWarmConnections settles (img.onload, img.onerror or the
\* 1 s timer).  When it is the last one Promise.allSettled resolves and
\* optimizeForSpeed runs on: this.isOptimized = true.
ProbeSettles ==
  /\ \E c \in DOMAIN warming, server \in StunServers :
       /\ server \in warming[c]
       /\ warming' = [warming EXCEPT ![c] = @ \ {server}]
       /\ isOptimized' = (isOptimized \/ warming[c] = {server})
  /\ UNCHANGED <<hardwareConcurrency, ran, beamshareOptimalTransfer>>
  /\ UNCHANGED <<transferVars, codecVars, optimizerVars, emitterVars, hookVars>>

\* ------------------------------------------------------------------ init
SenderInit ==
  /\ \E sizes \in FileLists :
       files = [k \in 1 .. Len(sizes) |-> FileOf(k - 1, sizes[k])]
  /\ spc = "start"
  /\ si = 0
  /\ offset = 0
  /\ piece = <<>>
  /\ seen = 0
  /\ slept = FALSE
  /\ reads = EmptyMap
  /\ activeTransfers = EmptyMap
  /\ transfer = [sent |-> 0, hash |-> NoHash]
  /\ cancelledAt = EmptyMap
  /\ others = <<>>
  /\ sEvents = <<>>

ChannelInit ==
  /\ wire = <<>>
  /\ bufferedAmount \in 0 .. BufCap

ReceiverInit ==
  /\ rIdx = 0
  /\ rLast = Msg("")
  /\ manifest = NoManifest
  /\ currentFile = NoFile
  /\ receivedFiles = EmptyMap
  /\ finalizing = <<>>
  /\ preparing = <<>>
  /\ rEvents = <<>>
  /\ handled = [id \in FileIds |-> [starts |-> 0, ends |-> 0]]
  /\ closedFiles = {}

StorageInit ==
  /\ fsAccessSupported \in BOOLEAN
  /\ opfsSupported \in BOOLEAN
  /\ directoryHandle = FALSE
  /\ tempFiles = EmptyMap
  /\ saved = <<>>

\* ------------------------------------------------------------------ sender alone
\* A sender whose peer is not modelled.
SenderIdle ==
  /\ files = <<FileOf(0, 0)>>
  /\ spc = "done"
  /\ si = 0
  /\ offset = 0
  /\ piece = <<>>
  /\ seen = 0
  /\ slept = FALSE
  /\ reads = EmptyMap
  /\ activeTransfers = EmptyMap
  /\ transfer = [sent |-> 0, hash |-> NoHash]
  /\ cancelledAt = EmptyMap
  /\ others = <<>>
  /\ sEvents = <<>>

StorageIdle ==
  /\ fsAccessSupported = FALSE
  /\ opfsSupported = FALSE
  /\ directoryHandle = FALSE
  /\ tempFiles = EmptyMap
  /\ saved = <<>>

InitSend == SenderInit /\ ChannelInit /\ ReceiverInit /\ StorageIdle /\ CodecIdle /\ OptimizerIdle /\ EmitterIdle /\ HookIdle /\ AutoIdle

NextSend ==
  \/ SendManifest
  \/ BeginFile
  \/ SendFileHeader
  \/ ReadChunk
  \/ WaitForBuffer
  \/ WakeUp
  \/ SendChunk
  \/ SendFileEnd
  \/ SendComplete
  \/ Drain

SpecSend == InitSend /\ [][NextSend]_vars

\* The steps of the sendFiles coroutine.  Each is the continuation of a
\* promise the browser settles (the digest, the read, the 100 ms timer) or
\* runs at once, so one that stays enabled is taken; nothing makes the
\* channel drain.
SenderStep ==
  \/ SendManifest
  \/ BeginFile
  \/ SendFileHeader
  \/ ReadChunk
  \/ WaitForBuffer
  \/ WakeUp
  \/ SendChunk
  \/ SendFileEnd
  \/ SendComplete

\* The batches whose end is awaited.
LiveFileLists ==
  UNION { [1 .. n -> 0 .. MaxLiveSize] : n \in 1 .. MaxLiveFiles }

InitSendFair ==
  /\ InitSend
  /\ \E sizes \in LiveFileLists :
       files = [k \in 1 .. Len(sizes) |-> FileOf(k - 1, sizes[k])]

SpecSendFair == InitSendFair /\ [][NextSend]_vars /\ WF_vars(SenderStep)

\* ------------------------------------------------------------------ two calls
\* A sendFiles call for one file on an idle channel, and another sendFile
\* call that sends on the same channel whenever the first is suspended.
InitConc ==
  /\ CodecIdle /\ OptimizerIdle /\ EmitterIdle /\ HookIdle /\ AutoIdle
  /\ SenderInit
  /\ Len(files) = 1
  /\ wire = <<>>
  /\ bufferedAmount = 0
  /\ ReceiverInit
  /\ StorageIdle

NextConc ==
  \/ SendManifest
  \/ BeginFile
  \/ SendFileHeader
  \/ ReadChunk
  \/ WaitForBuffer
  \/ WakeUp
  \/ SendChunk
  \/ SendFileEnd
  \/ SendComplete
  \/ Drain
  \/ OtherCallSends

SpecConc == InitConc /\ [][NextConc]_vars

\* ------------------------------------------------------------------ cancels and throws
\* A sendFiles call on an idle channel that may be cancelled and may throw.
InitCancel ==
  /\ CodecIdle /\ OptimizerIdle /\ EmitterIdle /\ HookIdle /\ AutoIdle
  /\ SenderInit
  /\ wire = <<>>
  /\ bufferedAmount = 0
  /\ ReceiverInit
  /\ StorageIdle

NextCancel ==
  \/ SendManifest
  \/ BeginFile
  \/ SendFileHeader
  \/ ReadChunk
  \/ WaitForBuffer
  \/ WakeUp
  \/ SendChunk
  \/ SendFileEnd
  \/ SendComplete
  \/ Drain
  \/ CancelTransfer
  \/ CancelAllTransfers
  \/ SendThrows

SpecCancel == InitCancel /\ [][NextCancel]_vars

\* ------------------------------------------------------------------ codecs
\* A pairing payload is encoded on one device and the code is parsed on
\* another, some time later.
InitCodec ==
  /\ CodecInit
  /\ OptimizerIdle
  /\ EmitterIdle /\ HookIdle /\ AutoIdle
  /\ SenderIdle
  /\ wire = <<>>
  /\ bufferedAmount = 0
  /\ ReceiverInit
  /\ StorageIdle

NextCodec ==
  \/ Tick
  \/ CreatePairingCode
  \/ ParsePairingCode
  \/ GeneratePairingCode
  \/ QrParsePairingCode
  \/ EnterCode

SpecCodec == InitCodec /\ [][NextCodec]_vars

\* ------------------------------------------------------------------ receiver alone
InitRecv ==
  /\ CodecIdle /\ OptimizerIdle /\ EmitterIdle /\ HookIdle /\ AutoIdle
  /\ SenderIdle
  /\ wire = <<>>
  /\ bufferedAmount = 0
  /\ ReceiverInit
  /\ StorageInit

NextRecv ==
  \/ PeerDeliver
  \/ PrepareDone
  \/ SaveDone

SpecRecv == InitRecv /\ [][NextRecv]_vars

\* ------------------------------------------------------------------ receiver and text
\* The receiver alone, its peer sending text that is not JSON as well.
NextNoisy ==
  \/ NoisyDeliver
  \/ PrepareDone
  \/ SaveDone

SpecNoisy == InitRecv /\ [][NextNoisy]_vars

\* ------------------------------------------------------------------ receiver and errors
\* A receiver that saves by download (neither the File System Access API nor
\* OPFS) and a peer that sends one chunk at a time, long enough for a second
\* file to follow a file that failed.
InitOrderly ==
  /\ CodecIdle /\ OptimizerIdle /\ EmitterIdle /\ HookIdle /\ AutoIdle
  /\ SenderIdle
  /\ wire = <<>>
  /\ bufferedAmount = 0
  /\ ReceiverInit
  /\ StorageIdle

NextOrderly == OrderlyDeliver

SpecOrderly == InitOrderly /\ [][NextOrderly]_vars

\* ------------------------------------------------------------------ end to end
\* The sender's messages delivered in order to the receiver.  No call of
\* finalizeFile reaches saveFile here (NoSavePending), so SaveDone is no step
\* of this specification.
Init == SenderInit /\ ChannelInit /\ ReceiverInit /\ StorageInit /\ CodecIdle /\ OptimizerIdle /\ EmitterIdle /\ HookIdle /\ AutoIdle

Next ==
  \/ SendManifest
  \/ BeginFile
  \/ SendFileHeader
  \/ ReadChunk
  \/ WaitForBuffer
  \/ WakeUp
  \/ SendChunk
  \/ SendFileEnd
  \/ SendComplete
  \/ Drain
  \/ Deliver
  \/ PrepareDone

Spec == Init /\ [][Next]_vars

NoSavePending == finalizing = <<>>

\* ------------------------------------------------------------------ heuristics alone
InitOptimizer ==
  /\ OptimizerInit
  /\ CodecIdle
  /\ EmitterIdle /\ HookIdle /\ AutoIdle
  /\ SenderIdle
  /\ wire = <<>>
  /\ bufferedAmount = 0
  /\ ReceiverInit
  /\ StorageIdle

NextOptimizer ==
  \/ UpdateMetrics
  \/ GetOptimalConfig
  \/ GetAdaptiveChunkSize
  \/ NewFileTransferManager

SpecOptimizer == InitOptimizer /\ [][NextOptimizer]_vars

\* ------------------------------------------------------------------ emitter alone
InitEmitter ==
  /\ EmitterIdle /\ HookIdle /\ AutoIdle
  /\ CodecIdle
  /\ OptimizerIdle
  /\ SenderIdle
  /\ wire = <<>>
  /\ bufferedAmount = 0
  /\ ReceiverInit
  /\ StorageIdle

NextEmitter ==
  \/ On
  \/ Off
  \/ Emit
  \/ Invoke
  \/ EmitReturns

SpecEmitter == InitEmitter /\ [][NextEmitter]_vars

\* ------------------------------------------------------------------ hook alone
\* One useFileTransfer hook: startTransfer calls, cancelTransfer and a data
\* channel that may close.
InitHook ==
  /\ SenderIdle
  /\ wire = <<>>
  /\ bufferedAmount = 0
  /\ ReceiverInit
  /\ StorageIdle
  /\ CodecIdle
  /\ OptimizerIdle
  /\ EmitterIdle
  /\ HookIdle /\ AutoIdle

NextHook ==
  \/ StartTransfer
  \/ ReadDone
  \/ SleepDone
  \/ HookCancelTransfer
  \/ ChannelCloses

SpecHook == InitHook /\ [][NextHook]_vars

\* ------------------------------------------------------------------ auto optimizer alone
\* One AutoOptimizer on a device and a network, and the calls made to it.
InitAuto ==
  /\ SenderIdle
  /\ wire = <<>>
  /\ bufferedAmount = 0
  /\ ReceiverInit
  /\ StorageIdle
  /\ CodecIdle
  /\ OptimizerInit
  /\ EmitterIdle
  /\ HookIdle
  /\ AutoInit

NextAuto ==
  \/ OptimizeForSpeed
  \/ ProbeSettles

SpecAuto == InitAuto /\ [][NextAuto]_vars

\* ------------------------------------------------------------------ claims
IsControl(m, type) == ~m.binary /\ m.type = type

\* The position of the file-end that closes the file section of `id` which
\* starts at position k of ms (k is after the file-start): every message up to
\* it is a chunk header of `id` followed by a payload of the declared size.
\* 0 when the section is not of that shape.
RECURSIVE SectionEnd(_, _, _)
SectionEnd(ms, k, id) ==
  IF k > Len(ms) THEN 0
  ELSE IF IsControl(ms[k], "file-end") /\ ms[k].fileId = id THEN k
  ELSE IF /\ IsControl(ms[k], "chunk") /\ ms[k].fileId = id
          /\ k + 1 <= Len(ms)
          /\ ms[k + 1].binary /\ Len(ms[k + 1].data) = ms[k].size
    THEN SectionEnd(ms, k + 2, id)
  ELSE 0

\* ms from position k on is the file sections of id, id + 1, ..., n - 1 and
\* then one complete message, which is the last message.
RECURSIVE FramedFrom(_, _, _, _)
FramedFrom(ms, k, id, n) ==
  IF id = n THEN k = Len(ms) /\ IsControl(ms[k], "complete")
  ELSE /\ k <= Len(ms)
       /\ IsControl(ms[k], "file-start") /\ ms[k].fileId = id
       /\ LET e == SectionEnd(ms, k + 1, id) IN
            e # 0 /\ FramedFrom(ms, e + 1, id + 1, n)

Framed(ms, n) ==
  /\ Len(ms) >= 1
  /\ IsControl(ms[1], "manifest") /\ Len(ms[1].files) = n
  /\ FramedFrom(ms, 2, 0, n)

\* C1: when sendFiles has returned, the messages it put on the channel are one
\* manifest, then per file in declaration order one file-start, the file's
\* chunks (header, payload) and one file-end, then one complete message.
C1_Framing == spc = "done" => Framed(wire, Len(files))

CompleteEvents == { k \in 1 .. Len(rEvents) : rEvents[k].type = "complete" }

\* C2: at every 'complete' event of the receiver of a sendFiles batch, the
\* receiver has processed exactly one file-start and one file-end for every
\* file the manifest declares, and none for any other file.
C2_PairsBeforeComplete ==
  \A k \in CompleteEvents :
    /\ rEvents[k].manifest.received
    /\ \A id \in FileIds :
         LET n == IF id \in DeclaredIds(rEvents[k].manifest) THEN 1 ELSE 0 IN
           /\ rEvents[k].handled[id].starts = n
           /\ rEvents[k].handled[id].ends = n

\* A step that puts a chunk (header and payload) on the channel.
ChunkSent == Len(wire') > Len(wire) /\ wire'[Len(wire')].binary

\* C3: a chunk is sent only by a sendFile whose last test of bufferedAmount
\* saw it at or below maxBufferedAmount, and a sendFile that sleeps in
\* waitForBuffer sends nothing.
C3_Backpressure ==
  [][/\ ChunkSent => seen <= maxBufferedAmount
     /\ spc \in {"wait", "sleep"} => wire' = wire]_vars

\* A chunk has been sent after sendFile slept in waitForBuffer for it.
C3_Witness ==
  /\ slept /\ seen <= maxBufferedAmount
  /\ spc = "read" /\ wire # <<>> /\ wire[Len(wire)].binary

\* The (offset, payload) pairs of the chunks of file id on the channel.
RECURSIVE ChunksOnWire(_, _)
ChunksOnWire(ms, id) ==
  IF Len(ms) < 2 THEN <<>>
  ELSE IF IsControl(ms[1], "chunk") /\ ms[1].fileId = id /\ ms[2].binary
    THEN <<[offset |-> ms[1].offset, data |-> ms[2].data]>>
           \o ChunksOnWire(Tail(Tail(ms)), id)
  ELSE ChunksOnWire(Tail(ms), id)

\* What sendFile sends for the values rs of reader.read() when the buffer
\* never stalls it: each value at the offset where the previous one ended.
RECURSIVE StreamedFrom(_, _)
StreamedFrom(rs, off) ==
  IF rs = <<>> THEN <<>>
  ELSE <<[offset |-> off, data |-> rs[1]]>>
         \o StreamedFrom(Tail(rs), off + Len(rs[1]))

\* The number of values read for file id that are not sent yet.
Unsent(id) ==
  IF id = fileId /\ spc \in {"wait", "sleep", "send"} THEN 1 ELSE 0

\* C4: whatever the stalls and drains of the buffer, the chunks sent for a
\* file are the values read from it, in the order read, each at the offset
\* where the previous one ended: nothing is dropped, repeated or reordered.
C4_NoDropNoReorder ==
  \A id \in DOMAIN reads :
    LET ref == StreamedFrom(reads[id], 0) IN
      ChunksOnWire(wire, id) = SubSeq(ref, 1, Len(ref) - Unsent(id))

\* A file of two chunks is fully sent, and its last chunk was stalled.
C4_Witness ==
  /\ spc = "read" /\ slept
  /\ offset = CurFile.size
  /\ Len(reads[fileId]) >= 2

AllDelivered ==
  /\ spc = "done" /\ rIdx = Len(wire)
  /\ finalizing = <<>> /\ preparing = <<>>

SavedAs(id, bytes) ==
  \E k \in 1 .. Len(saved) : saved[k].name = id /\ saved[k].data = bytes

\* C5: when every message of sendFiles has been delivered and handled, each
\* file of the batch has been saved with the bytes the sender read.
C5_Delivered ==
  AllDelivered =>
    \A i \in 1 .. Len(files) : SavedAs(i - 1, FileBytes(i - 1, files[i].size))

ErrorFor(id, kinds) ==
  \E k \in 1 .. Len(rEvents) :
    /\ rEvents[k].type = "error"
    /\ rEvents[k].fileId = id
    /\ rEvents[k].kind \in kinds

\* File id is closed, its file-start declared a digest, and bytes were
\* reassembled and saved for it.
ClosedWithDigest(id) ==
  /\ id \in closedFiles
  /\ id \in DOMAIN receivedFiles
  /\ receivedFiles[id].hash # NoHash
  /\ \E k \in 1 .. Len(saved) : saved[k].name = id

SavedDigestMatches(id) ==
  \A k \in 1 .. Len(saved) :
    saved[k].name = id => SHA256(saved[k].data) = receivedFiles[id].hash

\* Bytes of the declared size but not of the declared digest were reassembled
\* for file id: a payload byte was corrupted on the way.
SavedCorrupted(id) ==
  \E k \in 1 .. Len(saved) :
    /\ saved[k].name = id
    /\ Len(saved[k].data) = receivedFiles[id].size
    /\ SHA256(saved[k].data) # receivedFiles[id].hash

\* C6: a closed file that declared a digest and whose reassembled bytes are
\* corrupted has an integrity-check failure reported for it.
C6_CorruptionDetected ==
  \A id \in FileIds :
    ClosedWithDigest(id) /\ SavedCorrupted(id)
      => ErrorFor(id, {"IntegrityCheckFailed"})

\* C7: a closed file whose reassembled bytes have the declared digest has no
\* error reported by completeFileReceive.
C7_MatchIsNoError ==
  \A id \in FileIds :
    ClosedWithDigest(id) /\ SavedDigestMatches(id)
      => ~ErrorFor(id, {"FileNotFound", "IntegrityCheckFailed"})

\* C8: every 'complete' event is emitted with a manifest received, every
\* declared file closed and no completeFileReceive still awaiting storage.
C8_CompleteOnlyWhenClosed ==
  \A k \in CompleteEvents :
    /\ rEvents[k].manifest.received
    /\ rEvents[k].open = {}
    /\ rEvents[k].inFlight = {}

\* The next step hands the receiver a message while a chunk header is pending.
HeaderPending ==
  /\ currentFile # NoFile
  /\ receivedFiles[currentFile].expectedChunk # NoChunk

Handles == rIdx' = rIdx + 1

\* C9: a chunk header that arrives while a chunk header is pending is
\* reported as an error and does not replace the pending header.
C9_SecondHeaderRejected ==
  [][HeaderPending /\ Handles /\ IsControl(rLast', "chunk")
       => /\ Len(rEvents') = Len(rEvents) + 1
          /\ rEvents'[Len(rEvents')].type = "error"
          /\ receivedFiles' = receivedFiles]_vars

\* C10: a payload whose length differs from the pending header's size is
\* reported as a chunk size mismatch and changes nothing else: nothing is
\* written to storage, no received count advances, no progress is emitted.
C10_LengthMismatch ==
  [][HeaderPending /\ Handles /\ rLast'.binary
       /\ Len(rLast'.data) # receivedFiles[currentFile].expectedChunk[1].size
       => /\ rEvents' = Append(rEvents, ErrorEvent("ChunkSizeMismatch", currentFile))
          /\ UNCHANGED <<manifest, currentFile, receivedFiles, finalizing,
                         preparing, handled, closedFiles, storageVars>>]_vars

\* A payload of the wrong length has just been handled with a header pending.
C10_Witness ==
  /\ rLast.binary
  /\ HeaderPending
  /\ Len(rLast.data) # receivedFiles[currentFile].expectedChunk[1].size
  /\ rEvents # <<>>
  /\ rEvents[Len(rEvents)].kind = "ChunkSizeMismatch"

\* A fatal error of the session has been raised: a chunk length mismatch or
\* an integrity failure.
Failed == \E id \in FileIds : ErrorFor(id, {"ChunkSizeMismatch", "IntegrityCheckFailed"})

\* C11: once a fatal error has been raised, no later inbound message causes a
\* storage write, a 'progress' event or a 'complete' event.
C11_FailedIsAbsorbing ==
  [][Failed /\ Handles
       => /\ tempFiles' = tempFiles
          /\ saved' = saved
          /\ \A k \in (Len(rEvents) + 1) .. Len(rEvents') :
               rEvents'[k].type \notin {"progress", "complete"}]_vars

\* The receiver's 'progress' events of file id, in the order emitted.
ProgressOf(id) ==
  SelectSeq(rEvents, LAMBDA e : e.type = "progress" /\ e.fileId = id)

\* C12: when a batch has been delivered in order, the 'progress' events of
\* every file of size > 0 have strictly increasing received counts, and
\* exactly one of them, the last, reports received = size.
C12_ProgressMonotone ==
  AllDelivered =>
    \A i \in 1 .. Len(files) :
      files[i].size > 0 =>
        LET ps == ProgressOf(i - 1) IN
          /\ \A k \in 1 .. (Len(ps) - 1) : ps[k].received < ps[k + 1].received
          /\ ps # <<>>
          /\ ps[Len(ps)].received = files[i].size
          /\ \A k \in 1 .. (Len(ps) - 1) : ps[k].received # ps[k].total

\* The digest of the empty input.
EmptyDigest == SHA256(<<>>)

\* On the channel, file id is a file-start directly followed by a file-end,
\* both with the digest of the empty input.
SentAsEmpty(id) ==
  \E k \in 1 .. (Len(wire) - 1) :
    /\ IsControl(wire[k], "file-start") /\ wire[k].fileId = id
    /\ wire[k].hash = EmptyDigest
    /\ IsControl(wire[k + 1], "file-end") /\ wire[k + 1].fileId = id
    /\ wire[k + 1].hash = EmptyDigest

\* C13: a zero-byte file of a delivered batch was sent as file-start and
\* file-end with the digest of the empty input and no chunk, and the receiver
\* has completed it: zero bytes saved, no error for the file.
C13_ZeroByteFile ==
  AllDelivered =>
    \A i \in 1 .. Len(files) :
      files[i].size = 0 =>
        /\ SentAsEmpty(i - 1)
        /\ ChunksOnWire(wire, i - 1) = <<>>
        /\ SavedAs(i - 1, <<>>)
        /\ ~ErrorFor(i - 1, {"FileNotFound", "IntegrityCheckFailed"})

\* The chunk headers of file id on the channel, in the order sent.
HeadersOf(ms, id) ==
  SelectSeq(ms, LAMBDA m : IsControl(m, "chunk") /\ m.fileId = id)

FileEndSent(id) ==
  \E k \in 1 .. Len(wire) : IsControl(wire[k], "file-end") /\ wire[k].fileId = id

\* C14: every chunk header sent for a file lies within the file, starts where
\* the file's earlier chunks end, and does not start before its predecessor;
\* the chunks of a file whose file-end was sent add up to the file's size.
C14_ChunkOffsets ==
  \A i \in 1 .. Len(files) :
    LET hs == HeadersOf(wire, i - 1) IN
      /\ \A k \in 1 .. Len(hs) :
           /\ hs[k].offset + hs[k].size <= files[i].size
           /\ hs[k].offset = SumSizes(SubSeq(hs, 1, k - 1))
           /\ k > 1 => hs[k - 1].offset <= hs[k].offset
      /\ FileEndSent(i - 1) => SumSizes(hs) = files[i].size

\* A file sent in two or more chunks, up to its file-end.
C14_Witness ==
  \E i \in 1 .. Len(files) :
    FileEndSent(i - 1) /\ Len(HeadersOf(wire, i - 1)) >= 2

\* The bytes sendFile read for the chunk whose header h it sent for file i.
OwnBytes(i, h) == SubSeqFrom(FileBytes(i - 1, files[i].size), h.offset, h.size)

C16_ChunksOfChunkSize ==
  \A i \in 1 .. Len(files) :
    LET hs == HeadersOf(wire, i - 1) IN
      \A k \in 1 .. Len(hs) :
        /\ hs[k].size <= chunkSize
        /\ k < Len(hs) => hs[k].size = chunkSize

\* The chunks of the observed call on the channel for file id.
RECURSIVE OwnHeadersFrom(_, _)
OwnHeadersFrom(k, id) ==
  IF k > Len(wire) THEN <<>>
  ELSE (IF ~OwnedByOther(k) /\ IsChunkHeader(wire[k]) /\ wire[k].fileId = id
          THEN <<wire[k]>> ELSE <<>>) \o OwnHeadersFrom(k + 1, id)

\* C17: a file cancelled while sendFile was sending it is no longer tracked,
\* and no chunk of it is sent beyond those begun when it was cancelled.
C17_CancelStopsChunks ==
  \A id \in DOMAIN cancelledAt :
    /\ id \notin DOMAIN activeTransfers
    /\ Len(OwnHeadersFrom(1, id)) <= cancelledAt[id]

\* C18: activeTransfers holds no entry for a file whose file-end was sent,
\* and none at all when sendFiles has returned.
C18_NoEntryAfterFileEnd ==
  /\ \A id \in DOMAIN activeTransfers : ~FileEndSent(id)
  /\ spc = "done" => activeTransfers = EmptyMap

\* The terminal events emitted to the sender's listeners.
TerminalEvents ==
  SelectSeq(sEvents, LAMBDA e : e.type \in {"complete", "error"})

\* C19: a sendFiles call that has ended has emitted exactly one terminal
\* event: 'complete' when it returned, 'error' when it threw.
C19_OneTerminalEvent ==
  /\ spc = "done" =>
       Len(TerminalEvents) = 1 /\ TerminalEvents[1].type = "complete"
  /\ spc = "failed" =>
       Len(TerminalEvents) = 1 /\ TerminalEvents[1].type = "error"

\* The pairing data that the code in `code` was made from.
Encoded ==
  IF codec = "SignalingManager" THEN PairingData(payload, stamped)
  ELSE QrPairingData(payload, stamped)

\* The code is parsed within its validity window.
WithinWindow == parsedAt - stamped <= ValidityWindow

\* C20: for every pairing payload, compressed or not, the encode call returns
\* a code, and parsing that code within its validity window returns the
\* pairing data it was made from.
C20_RoundTrip ==
  /\ cpc = "encoded" => code.ok
  /\ cpc = "parsed" /\ WithinWindow => parsed.ok /\ parsed.data = Encoded

\* The age of the code when the last parse call read the clock.
Age == parsedAt - stamped

\* What the parse call that ran would have answered for the same code on the
\* same device at the time the code was made.
ParsedWhenMade ==
  IF codec = "qr-utils"
    THEN qr_parsePairingCode(code.text, stamped, decoderDS)
    ELSE parsePairingCode(code.text, decoderDS)

\* C21: a parse call (qr-utils' parsePairingCode, SignalingManager's
\* parsePairingCode) rejects a code made more than the validity window
\* before the time of the call, and for a code no older than the window it
\* answers what it answers for the code at age 0.
C21_Expiry ==
  cpc = "parsed" =>
    /\ Age > ValidityWindow => ~parsed.ok
    /\ Age <= ValidityWindow => parsed = ParsedWhenMade

\* The last parse call was qr-utils' parsePairingCode.
QrParsed == cpc \in {"parsed", "answered"} /\ codec = "qr-utils"

\* The JSON value inside the code, as the device that parsed it reads it.
Inside ==
  LET a == Atob(code.text) IN
  IF a.ok THEN JsonParse(decompressData(a.text, decoderDS)) ELSE NotJson

\* The code holds well-formed pairing data stamped more than the validity
\* window before the parse call.
ExpiredCode ==
  /\ Inside.ok
  /\ Inside.data.timestamp # NoTimestamp
  /\ parsedAt - Inside.data.timestamp > ValidityWindow

\* The error qr-utils' parsePairingCode reports for text that is not a code.
MalformedError == qr_parsePairingCode(<<"a">>, parsedAt, decoderDS).error

\* C22: qr-utils' parsePairingCode reports an expired code with an error
\* that differs from the error it reports for a malformed code.
C22_ExpiredIsNotMalformed ==
  QrParsed /\ ExpiredCode => ~parsed.ok /\ parsed.error # MalformedError

\* A parse call has returned or thrown.
ParseEnded == cpc \in {"parsed", "answered"}

\* The members every pairing payload must hold.
HasRequiredMembers(d) == d.version # "" /\ d.role # "" /\ d.sdp # <<>>

\* C23: a parse call of either codec returns pairing data only when the
\* data holds a version, a role and an sdp; a code whose data lacks one of
\* them is rejected with an error.
C23_ValidatesMembers ==
  ParseEnded /\ parsed.ok => HasRequiredMembers(parsed.data)

\* The text inside the base64 of the code that was made.
Body == Atob(code.text).text

\* The text starts with a tag that says whether what follows is compressed.
Tagged(text) ==
  StartsWith(text, "RAW:") \/ StartsWith(text, "GZIP:") \/ StartsWith(text, "SIMPLE:")

\* C24: every code an encode call returns holds, inside its base64, a text
\* that starts with a tag saying whether the rest is compressed.
C24_SelfDescribing ==
  cpc = "encoded" /\ code.ok => Tagged(Body)

\* C25: where CompressionStream is not available an encode call still
\* returns a code, the text inside it is tagged and not compressed, and
\* parsing the code within its validity window returns the encoded data.
C25_BestEffortFallback ==
  /\ cpc = "encoded" /\ ~encoderCS =>
       code.ok /\ Tagged(Body) /\ ~StartsWith(Body, "GZIP:")
  /\ cpc = "parsed" /\ ~encoderCS /\ WithinWindow =>
       parsed.ok /\ parsed.data = Encoded

\* The step is a parse call of either codec.
ParseStep == parses' = parses + 1

ChunkFloor == 16 * KiB
ChunkCeiling == 2 * MiB

\* C27: whatever the connection class, the device memory and the measured
\* speed and latency, a chunk size returned by a heuristic is at least
\* 16 KiB and at most 2 MiB.
C27_ChunkSizeClamped ==
  chunk.fn # "" => ChunkFloor <= chunk.size /\ chunk.size <= ChunkCeiling

\* getAdaptiveChunkSize has halved the smallest optimal size for a slow
\* transfer and returned the floor.
C27_Witness ==
  /\ chunk.fn = "PerformanceOptimizer.getAdaptiveChunkSize"
  /\ chunk.size = ChunkFloor
  /\ \E id \in DOMAIN connectionMetrics :
       /\ connectionMetrics[id].speed = 128 * KiB - 1
       /\ connectionMetrics[id].latency \in {NoValue, 200}

\* How often callback h occurs in a list.
Occurrences(list, h) == Len(SelectSeq(list, LAMBDA x : x = h))

\* C28: when emit has returned, every callback that was registered when it
\* started has been invoked exactly as often as it was registered then,
\* whatever the callbacks registered or unregistered while it ran.
C28_EmitSnapshot ==
  epc = "idle" =>
    \A h \in Handlers : Occurrences(called, h) = Occurrences(snapshot, h)

\* A payload was rejected because its file had no temp entry although the
\* manifest declares the file.
RejectedUnprepared ==
  \E k \in 1 .. Len(rEvents) :
    /\ rEvents[k].type = "error"
    /\ rEvents[k].kind = "NotInTempStorage"
    /\ rEvents[k].fileId \in DeclaredIds(manifest)

\* C29: while prepareReceive for the manifest has not finished no file is
\* opened by a file-start, and no payload of a declared file is rejected by
\* writeChunk for want of the file's temp entry.
C29_PreparedBeforeOpen ==
  /\ preparing # <<>> => receivedFiles = EmptyMap
  /\ ~RejectedUnprepared

\* The message handled last is text that is not JSON.
IsText(m) == ~m.json /\ ~m.binary

\* C30: a text message that does not parse as JSON changes neither the
\* manifest, the open file, the pending chunk header, any file's received
\* count nor the storage, so the messages after it are handled from the state
\* they would have met without it.
C30_MalformedDropped ==
  [][Handles /\ IsText(rLast')
       => UNCHANGED <<manifest, currentFile, receivedFiles, finalizing,
                      preparing, handled, closedFiles, storageVars>>]_vars

\* Text that is not JSON, as long as the declared chunk, has just been
\* handled while that chunk's header was pending and its file had a temp
\* entry.
C30_Witness ==
  /\ IsText(rLast)
  /\ HeaderPending
  /\ currentFile \in DOMAIN tempFiles
  /\ Len(rLast.data) = receivedFiles[currentFile].expectedChunk[1].size

\* Calls of startTransfer made so far.
Started == DOMAIN loops

\* C31: a closed transport is fatal to the sending session: a startTransfer
\* call that had a sendData call return false (the channel was not open)
\* never goes on to report the transfer complete (progress 100).
C31_ClosedIsFatal ==
  \A c \in Started : loops[c].refused => ~loops[c].completed

\* C32: once a startTransfer call has observed the cancellation (one of its
\* tests of signal.aborted was true) it sends no further message and never
\* sets the progress to 100.
C32_CancelHalts ==
  \A c \in Started :
    loops[c].observed => loops[c].after = <<>> /\ ~loops[c].completed

\* The file-chunk messages the last step passed to the data channel.
ChunksSent ==
  { sending[k] : k \in { j \in 1 .. Len(sending) :
                          sending[j].type = "file-chunk" } }

\* C33: a cancelled transfer stays cancelled: a call whose controller was
\* aborted never passes an abort test and so sends no chunk it began to read
\* after the cancellation, and no chunk of a cancelled call follows a chunk
\* of a later call on the channel.
C33_StaysCancelled ==
  \A m \in ChunksSent :
    m.call \in aborted =>
      /\ ~loops[m.call].unseen
      /\ \A d \in Started : d > m.call => loops[d].transferredBytes = 0

\* Byte i of every chunk is at position offset + i of data (positions and i
\* counted from 1 here, from 0 in the source).
PlacedAtOffsets(data, chunks) ==
  \A k \in 1 .. Len(chunks) :
    \A i \in 1 .. Len(chunks[k].data) :
      /\ chunks[k].offset + i <= Len(data)
      /\ data[chunks[k].offset + i] = chunks[k].data[i]

\* The handler of a file-end message calls finalizeFile for a file that has
\* a temp entry.
FinalizeStarts(id) ==
  /\ handled'[id].ends = handled[id].ends + 1
  /\ id \in DOMAIN receivedFiles
  /\ id \in DOMAIN tempFiles

\* C34: reassembly places every accepted chunk at its declared offset: in
\* the file finalizeFile hands to saveFile, byte i of a chunk written with
\* offset o is at position o + i, whatever chunks were written for the file.
C34_ChunksAtOffsets ==
  [][\A id \in FileIds :
       FinalizeStarts(id) =>
         PlacedAtOffsets(IF SaveIsAsync
                           THEN finalizing'[Len(finalizing')].data
                           ELSE saved'[Len(saved')].data,
                         tempFiles[id])]_vars

\* File a has failed: a payload of the wrong length was rejected for it, or
\* the verification of its digest failed or could not be made.
HasFailed(a) ==
  ErrorFor(a, {"ChunkSizeMismatch", "IntegrityCheckFailed", "FileNotFound"})

\* The handler is given a message of a file later than a file that failed.
AfterFailure(b) == Handles /\ \E a \in FileIds : a < b /\ HasFailed(a)

\* C35: an error on one file is not fatal to the session: after a chunk
\* length mismatch or an integrity failure on file a, the receiver opens a
\* later file b at its file-start, keeps its chunk headers, writes its
\* payloads of the declared length, hands it to saveFile at its file-end
\* (finalizing while the save is awaited), and emits 'complete' at the
\* completion message.
C35_ErrorNotFatal ==
  [][/\ \A b \in FileIds :
          AfterFailure(b) =>
            /\ (rLast'.json /\ rLast'.type = "file-start" /\ rLast'.fileId = b)
                 => /\ currentFile' = b
                    /\ b \in DOMAIN receivedFiles'
                    /\ receivedFiles'[b].received = 0
            /\ (rLast'.json /\ rLast'.type = "chunk" /\ rLast'.fileId = b
                  /\ currentFile = b)
                 => receivedFiles'[b].expectedChunk =
                      <<[offset |-> rLast'.offset, size |-> rLast'.size]>>
            /\ (rLast'.binary /\ currentFile = b /\ b \in DOMAIN tempFiles
                  /\ receivedFiles[b].expectedChunk # NoChunk
                  /\ receivedFiles[b].expectedChunk[1].size = Len(rLast'.data))
                 => tempFiles'[b] =
                      Append(tempFiles[b],
                             [offset |-> receivedFiles[b].expectedChunk[1].offset,
                              data |-> rLast'.data])
            /\ (rLast'.json /\ rLast'.type = "file-end" /\ rLast'.fileId = b
                  /\ b \in DOMAIN receivedFiles /\ b \in DOMAIN tempFiles)
                 => IF SaveIsAsync
                      THEN /\ Len(finalizing') = Len(finalizing) + 1
                           /\ finalizing'[Len(finalizing')].fileId = b
                      ELSE /\ Len(saved') = Len(saved) + 1
                           /\ saved'[Len(saved')].name = b
     /\ (Handles /\ (\E a \in FileIds : HasFailed(a))
           /\ rLast'.json /\ rLast'.type = "complete")
          => /\ Len(rEvents') = Len(rEvents) + 1
             /\ rEvents'[Len(rEvents')].type = "complete"]_vars

\* A payload of the wrong length was rejected for a file, a later file was
\* saved with a chunk in it, and 'complete' was emitted.
C35_Witness ==
  \E a \in FileIds, b \in FileIds :
    /\ a < b
    /\ ErrorFor(a, {"ChunkSizeMismatch"})
    /\ \E k \in 1 .. Len(saved) : saved[k].name = b /\ saved[k].data # <<>>
    /\ PeerDone

\* A code made by SignalingManager.createPairingCode is at hand.
MadeBySignaling ==
  cpc \in {"encoded", "parsed"} /\ codec = "SignalingManager" /\ code.ok

\* JSON.stringify(pairingData) of the encode call that made the code.
Serialized == StringifyPairing(PairingData(payload, stamped))

\* What the code holds under its base64.
UnderBase64 == Atob(code.text).text

\* C36: createPairingCode compresses if and only if compression is enabled
\* and the serialized pairing data is longer than the threshold: the text
\* under the base64 carries a compression tag exactly then, and is the
\* serialized data itself at the threshold and below.
C36_CompressesAboveThreshold ==
  MadeBySignaling =>
    /\ isCompressed(UnderBase64)
         <=> (compressionEnabled /\ Len(Serialized) > CompressionThreshold)
    /\ Len(Serialized) <= CompressionThreshold => UnderBase64 = Serialized

\* A code was made of pairing data that serializes to exactly the threshold.
C36_Witness ==
  MadeBySignaling /\ cpc = "encoded" /\ Len(Serialized) = CompressionThreshold

\* sendFiles is inside waitForBuffer.
InWaitForBuffer == spc \in {"wait", "sleep"}

AboveMark == bufferedAmount > maxBufferedAmount

ConfigStored == ran["optimizeTransfer"] >= 1

\* C38: getOptimalConcurrency returns a whole number between 2 and 8
\* inclusive for every reported core count: the concurrency that
\* getOptimalConfig returns and optimizeTransfer stores is one.
C38_ConcurrencyWhole ==
  ConfigStored =>
    LET n == beamshareOptimalTransfer.concurrency IN
    /\ n.num % n.den = 0
    /\ 2 * n.den <= n.num
    /\ n.num <= 8 * n.den

\* C39: optimizeForSpeed runs its optimization steps at most once per
\* instance, whatever calls are made and whenever.
C39_OptimizedOnce == \A step \in DOMAIN ran : ran[step] <= 1

====
